---- MODULE Spec2Model ----
(***************************************************************************)
(* Model of the unified scheduler's locking state machine                  *)
(* (src/unified-scheduler-logic/src/lib.rs): Page, Task, LockAttempt,      *)
(* Counter and SchedulingStateMachine.  Every Rust function is an operator *)
(* from a machine record to a machine record; a panic (unwrap on a checked *)
(* counter operation, assert!, unreachable!) is recorded in the field      *)
(* `panic` and stops every later statement of the call.                    *)
(***************************************************************************)
EXTENDS Integers, Sequences, FiniteSets, TLC

\* ---------------------------------------------------------------- bounds

\* Number of tasks the owner creates.
MaxTasks == 3

\* Width, in bits, the model gives the u32 Counter (TLC integers are 32-bit
\* signed, so the code's 32 does not fit).
CounterBits == 16

\* Width, in bits, the model gives UniqueWeight (u64 in the code).
UniqueWeightBits == 16

\* Account addresses the page loader knows.
Pages == {"A", "B"}

TaskIds == 1..MaxTasks

CounterMax == 2^CounterBits - 1

UniqueWeightMax == 2^UniqueWeightBits - 1

NoPanic == "none"

\* ------------------------------------------------------- Usage, Counter

Usage_Unused == [tag |-> "Unused", count |-> 0]

Usage_Readonly(count) == [tag |-> "Readonly", count |-> count]

Usage_Writable == [tag |-> "Writable", count |-> 0]

\* Mutant of renew: a Readonly request renews the page to Writable.
renew_always_writable(requested_usage) ==
    IF requested_usage = "Readonly" THEN Usage_Writable ELSE Usage_Writable

\* Usage::renew
renew(requested_usage) ==
    IF requested_usage = "Readonly" THEN Usage_Readonly(1) ELSE Usage_Writable

\* Counter::increment / Counter::decrement: checked, the unwrap panics.
CanIncrement(c) == c < CounterMax

CanDecrement(c) == c > 0

\* Counter::increment_self on a counter field of the machine.
increment_self(m, field) ==
    IF m.panic # NoPanic THEN m
    ELSE IF CanIncrement(m[field]) THEN [m EXCEPT ![field] = @ + 1]
    ELSE [m EXCEPT !.panic = "counter overflow"]

\* Mutant of decrement_self: the subtraction wraps.
decrement_self_wrapping(m, field) ==
    IF m.panic # NoPanic THEN m
    ELSE [m EXCEPT ![field] = (@ + CounterMax) % (CounterMax + 1)]

\* Counter::decrement_self on a counter field of the machine.
decrement_self(m, field) ==
    IF m.panic # NoPanic THEN m
    ELSE IF CanDecrement(m[field]) THEN [m EXCEPT ![field] = @ - 1]
    ELSE [m EXCEPT !.panic = "counter underflow"]

\* ------------------------------------------------------------- BTreeMap

\* BTreeMap<UniqueWeight, Task>: a function from a finite set of weights to
\* task handles.
EmptyMap == [w \in {} |-> 0]

MaxKey(map) == CHOOSE k \in DOMAIN map : \A j \in DOMAIN map : j <= k

\* BTreeMap::insert (the caller looks at the entry that was there before).
MapInsert(map, k, v) == [w \in DOMAIN map \cup {k} |-> IF w = k THEN v ELSE map[w]]

\* BTreeMap::remove
MapRemove(map, k) == [w \in DOMAIN map \ {k} |-> map[w]]

\* BTreeMap::entry(k).or_insert_with(v)
MapOrInsert(map, k, v) == IF k \in DOMAIN map THEN map ELSE MapInsert(map, k, v)

\* ----------------------------------------------------------------- Page

\* PageInner::default
NewPage ==
    [usage |-> Usage_Unused,
     writable_blocked_tasks |-> EmptyMap,
     readonly_blocked_tasks |-> EmptyMap]

\* PageInner::blocked_tasks_mut: the name of the map for a requested usage.
blocked_tasks_field(requested_usage) ==
    IF requested_usage = "Readonly" THEN "readonly_blocked_tasks"
    ELSE "writable_blocked_tasks"

\* PageInner::heaviest_blocked_writing_task.  Option<(&UniqueWeight, &Task)>
\* is a set with no element or with one weight.
heaviest_blocked_writing_task(page) ==
    IF DOMAIN page.writable_blocked_tasks = {} THEN {}
    ELSE {MaxKey(page.writable_blocked_tasks)}

\* PageInner::heaviest_blocked_readonly_task
heaviest_blocked_readonly_task(page) ==
    IF DOMAIN page.readonly_blocked_tasks = {} THEN {}
    ELSE {MaxKey(page.readonly_blocked_tasks)}

\* Mutant of heavier_task: the first argument wins whenever it is Some.
heavier_task_first_wins(x, y) ==
    IF x # {} THEN {[map |-> "writable_blocked_tasks", weight |-> CHOOSE w \in x : TRUE]}
    ELSE IF y # {} THEN {[map |-> "readonly_blocked_tasks", weight |-> CHOOSE w \in y : TRUE]}
    ELSE {}

\* PageInner::heavier_task: cmp::max_by gives the second argument unless the
\* first is strictly greater; None is less than Some.  The result names the
\* map the entry is in and its weight.
heavier_task(x, y) ==
    IF x = {} /\ y = {} THEN {}
    ELSE IF y = {} THEN {[map |-> "writable_blocked_tasks", weight |-> CHOOSE w \in x : TRUE]}
    ELSE IF x = {} THEN {[map |-> "readonly_blocked_tasks", weight |-> CHOOSE w \in y : TRUE]}
    ELSE IF (CHOOSE w \in x : TRUE) > (CHOOSE w \in y : TRUE)
         THEN {[map |-> "writable_blocked_tasks", weight |-> CHOOSE w \in x : TRUE]}
         ELSE {[map |-> "readonly_blocked_tasks", weight |-> CHOOSE w \in y : TRUE]}

\* Mutant of heaviest_blocked_task: the blocked writers alone are looked at.
heaviest_blocked_task_writers_only(page) ==
    heavier_task(heaviest_blocked_writing_task(page), {})

\* PageInner::heaviest_blocked_task
heaviest_blocked_task(page) ==
    heavier_task(heaviest_blocked_writing_task(page), heaviest_blocked_readonly_task(page))

\* ----------------------------------------------------------------- Task

\* LockAttempt::new
NewLockAttempt(page, requested_usage) ==
    [page |-> page, requested_usage |-> requested_usage, uncommited_usage |-> Usage_Unused]

\* Sequences without repetition over a set, up to its size.
RECURSIVE InjSeqs(_)
InjSeqs(S) ==
    {<<>>} \cup UNION {{<<x>> \o s : s \in InjSeqs(S \ {x})} : x \in S}

Range(s) == {s[i] : i \in DOMAIN s}

\* A sanitized transaction, as far as the scheduler reads it: its writable
\* and readonly account lists (no address twice, at least one address).
Transactions ==
    {[writable |-> w, readonly |-> r] :
        <<w, r>> \in {x \in InjSeqs(Pages) \X InjSeqs(Pages) :
                        /\ Range(x[1]) \cap Range(x[2]) = {}
                        /\ Len(x[1]) + Len(x[2]) >= 1}}

\* usize of the build the scheduler targets is as wide as UniqueWeight (u64).
UsizeBits == UniqueWeightBits

\* `index as UniqueWeight` and `... as usize`: the casts keep the low bits.
AsUniqueWeight(n) == n % 2^UniqueWeightBits

AsUsize(n) == n % 2^UsizeBits

\* Mutant of create_task: the index itself is the unique weight.
create_task_index_as_weight(transaction, index) ==
    [unique_weight |-> AsUniqueWeight(index),
     lock_attempts |->
        [i \in 1..Len(transaction.writable) |->
            NewLockAttempt(transaction.writable[i], "Writable")]
        \o
        [i \in 1..Len(transaction.readonly) |->
            NewLockAttempt(transaction.readonly[i], "Readonly")]]

\* SchedulingStateMachine::create_task: writable locks, then readonly locks;
\* the weight is MAX - index (checked_sub; index <= MAX here).
create_task(transaction, index) ==
    [unique_weight |-> UniqueWeightMax - AsUniqueWeight(index),
     lock_attempts |->
        [i \in 1..Len(transaction.writable) |->
            NewLockAttempt(transaction.writable[i], "Writable")]
        \o
        [i \in 1..Len(transaction.readonly) |->
            NewLockAttempt(transaction.readonly[i], "Readonly")]]

\* TaskInner::task_index
task_index(task) == AsUsize(UniqueWeightMax - task.unique_weight)

\* ------------------------------------------------- the locking algorithm

\* Mutant of attempt_lock_address: a Writable page grants a Writable request
\* (the last arm of the match on the usage treated like Unused).
attempt_lock_address_writable_regranted(page, this_unique_weight, requested_usage) ==
    LET by_usage ==
            CASE page.usage.tag = "Unused" ->
                    [status |-> "Succeded", usage |-> renew(requested_usage)]
              [] page.usage.tag = "Readonly" /\ requested_usage = "Readonly" ->
                    IF CanIncrement(page.usage.count)
                    THEN [status |-> "Succeded",
                          usage |-> Usage_Readonly(page.usage.count + 1)]
                    ELSE [status |-> "Panic", usage |-> Usage_Unused]
              [] page.usage.tag = "Writable" /\ requested_usage = "Writable" ->
                    [status |-> "Succeded", usage |-> renew(requested_usage)]
              [] OTHER -> [status |-> "Failed", usage |-> Usage_Unused]
        heaviest == heaviest_blocked_task(page)
        heaviest_writing == heaviest_blocked_writing_task(page)
        no_heavier_other_tasks ==
            \/ \A h \in heaviest : this_unique_weight >= h.weight
            \/ /\ requested_usage = "Readonly"
               /\ \A w \in heaviest_writing : this_unique_weight > w
    IN  IF by_usage.status = "Succeded" /\ ~no_heavier_other_tasks
        THEN [status |-> "Failed", usage |-> Usage_Unused]
        ELSE by_usage

\* Mutant of attempt_lock_address: a page in use is never shared, a Readonly
\* request on a Readonly page fails like a Writable one.
attempt_lock_address_exclusive_readers(page, this_unique_weight, requested_usage) ==
    LET by_usage ==
            CASE page.usage.tag = "Unused" ->
                    [status |-> "Succeded", usage |-> renew(requested_usage)]
              [] OTHER -> [status |-> "Failed", usage |-> Usage_Unused]
        heaviest == heaviest_blocked_task(page)
        heaviest_writing == heaviest_blocked_writing_task(page)
        no_heavier_other_tasks ==
            \/ \A h \in heaviest : this_unique_weight >= h.weight
            \/ /\ requested_usage = "Readonly"
               /\ \A w \in heaviest_writing : this_unique_weight > w
    IN  IF by_usage.status = "Succeded" /\ ~no_heavier_other_tasks
        THEN [status |-> "Failed", usage |-> Usage_Unused]
        ELSE by_usage

\* Mutant of attempt_lock_address: the grant is decided by the page's usage
\* alone, without the check for heavier blocked tasks.
attempt_lock_address_no_guard(page, this_unique_weight, requested_usage) ==
    CASE page.usage.tag = "Unused" ->
            [status |-> "Succeded", usage |-> renew(requested_usage)]
      [] page.usage.tag = "Readonly" /\ requested_usage = "Readonly" ->
            IF CanIncrement(page.usage.count)
            THEN [status |-> "Succeded", usage |-> Usage_Readonly(page.usage.count + 1)]
            ELSE [status |-> "Panic", usage |-> Usage_Unused]
      [] OTHER -> [status |-> "Failed", usage |-> Usage_Unused]

\* Mutant of attempt_lock_address: the comparisons of the guard are turned
\* round, the lighter task passes.
attempt_lock_address_lighter_first(page, this_unique_weight, requested_usage) ==
    LET by_usage ==
            CASE page.usage.tag = "Unused" ->
                    [status |-> "Succeded", usage |-> renew(requested_usage)]
              [] page.usage.tag = "Readonly" /\ requested_usage = "Readonly" ->
                    IF CanIncrement(page.usage.count)
                    THEN [status |-> "Succeded",
                          usage |-> Usage_Readonly(page.usage.count + 1)]
                    ELSE [status |-> "Panic", usage |-> Usage_Unused]
              [] OTHER -> [status |-> "Failed", usage |-> Usage_Unused]
        heaviest == heaviest_blocked_task(page)
        heaviest_writing == heaviest_blocked_writing_task(page)
        no_heavier_other_tasks ==
            \/ \A h \in heaviest : this_unique_weight <= h.weight
            \/ /\ requested_usage = "Readonly"
               /\ \A w \in heaviest_writing : this_unique_weight < w
    IN  IF by_usage.status = "Succeded" /\ ~no_heavier_other_tasks
        THEN [status |-> "Failed", usage |-> Usage_Unused]
        ELSE by_usage

\* Mutant of attempt_lock_address: the guard has its first clause only, a
\* reader waits behind any heavier blocked task.
attempt_lock_address_readers_wait(page, this_unique_weight, requested_usage) ==
    LET by_usage ==
            CASE page.usage.tag = "Unused" ->
                    [status |-> "Succeded", usage |-> renew(requested_usage)]
              [] page.usage.tag = "Readonly" /\ requested_usage = "Readonly" ->
                    IF CanIncrement(page.usage.count)
                    THEN [status |-> "Succeded",
                          usage |-> Usage_Readonly(page.usage.count + 1)]
                    ELSE [status |-> "Panic", usage |-> Usage_Unused]
              [] OTHER -> [status |-> "Failed", usage |-> Usage_Unused]
        heaviest == heaviest_blocked_task(page)
        heaviest_writing == heaviest_blocked_writing_task(page)
        no_heavier_other_tasks ==
            \A h \in heaviest : this_unique_weight >= h.weight
    IN  IF by_usage.status = "Succeded" /\ ~no_heavier_other_tasks
        THEN [status |-> "Failed", usage |-> Usage_Unused]
        ELSE by_usage

\* Mutant of attempt_lock_address: a page with any blocked task is refused,
\* whatever the weights.
attempt_lock_address_blocked_page_rejects(page, this_unique_weight, requested_usage) ==
    LET by_usage ==
            CASE page.usage.tag = "Unused" ->
                    [status |-> "Succeded", usage |-> renew(requested_usage)]
              [] page.usage.tag = "Readonly" /\ requested_usage = "Readonly" ->
                    IF CanIncrement(page.usage.count)
                    THEN [status |-> "Succeded",
                          usage |-> Usage_Readonly(page.usage.count + 1)]
                    ELSE [status |-> "Panic", usage |-> Usage_Unused]
              [] OTHER -> [status |-> "Failed", usage |-> Usage_Unused]
        heaviest == heaviest_blocked_task(page)
        heaviest_writing == heaviest_blocked_writing_task(page)
        no_heavier_other_tasks ==
            heaviest = {}
    IN  IF by_usage.status = "Succeded" /\ ~no_heavier_other_tasks
        THEN [status |-> "Failed", usage |-> Usage_Unused]
        ELSE by_usage

\* Mutant of attempt_lock_address: the first clause of the guard compares
\* with > instead of >=.
attempt_lock_address_strictly_heavier(page, this_unique_weight, requested_usage) ==
    LET by_usage ==
            CASE page.usage.tag = "Unused" ->
                    [status |-> "Succeded", usage |-> renew(requested_usage)]
              [] page.usage.tag = "Readonly" /\ requested_usage = "Readonly" ->
                    IF CanIncrement(page.usage.count)
                    THEN [status |-> "Succeded",
                          usage |-> Usage_Readonly(page.usage.count + 1)]
                    ELSE [status |-> "Panic", usage |-> Usage_Unused]
              [] OTHER -> [status |-> "Failed", usage |-> Usage_Unused]
        heaviest == heaviest_blocked_task(page)
        heaviest_writing == heaviest_blocked_writing_task(page)
        no_heavier_other_tasks ==
            \/ \A h \in heaviest : this_unique_weight > h.weight
            \/ /\ requested_usage = "Readonly"
               /\ \A w \in heaviest_writing : this_unique_weight > w
    IN  IF by_usage.status = "Succeded" /\ ~no_heavier_other_tasks
        THEN [status |-> "Failed", usage |-> Usage_Unused]
        ELSE by_usage

\* Mutant of attempt_lock_address: the guard looks at the blocked writers
\* alone, a blocked reader holds no one back.
attempt_lock_address_blocked_readers_unseen(page, this_unique_weight, requested_usage) ==
    LET by_usage ==
            CASE page.usage.tag = "Unused" ->
                    [status |-> "Succeded", usage |-> renew(requested_usage)]
              [] page.usage.tag = "Readonly" /\ requested_usage = "Readonly" ->
                    IF CanIncrement(page.usage.count)
                    THEN [status |-> "Succeded",
                          usage |-> Usage_Readonly(page.usage.count + 1)]
                    ELSE [status |-> "Panic", usage |-> Usage_Unused]
              [] OTHER -> [status |-> "Failed", usage |-> Usage_Unused]
        heaviest == heaviest_blocked_task(page)
        heaviest_writing == heaviest_blocked_writing_task(page)
        no_heavier_other_tasks ==
            \/ \A w \in heaviest_writing : this_unique_weight >= w
            \/ /\ requested_usage = "Readonly"
               /\ \A w \in heaviest_writing : this_unique_weight > w
    IN  IF by_usage.status = "Succeded" /\ ~no_heavier_other_tasks
        THEN [status |-> "Failed", usage |-> Usage_Unused]
        ELSE by_usage

\* SchedulingStateMachine::attempt_lock_address.  LockStatus is
\* [status, usage]; status "Panic" is the checked increment of the reader
\* count overflowing.
attempt_lock_address(page, this_unique_weight, requested_usage) ==
    LET by_usage ==
            CASE page.usage.tag = "Unused" ->
                    [status |-> "Succeded", usage |-> renew(requested_usage)]
              [] page.usage.tag = "Readonly" /\ requested_usage = "Readonly" ->
                    IF CanIncrement(page.usage.count)
                    THEN [status |-> "Succeded",
                          usage |-> Usage_Readonly(page.usage.count + 1)]
                    ELSE [status |-> "Panic", usage |-> Usage_Unused]
              [] OTHER -> [status |-> "Failed", usage |-> Usage_Unused]
        heaviest == heaviest_blocked_task(page)
        heaviest_writing == heaviest_blocked_writing_task(page)
        no_heavier_other_tasks ==
            \/ \A h \in heaviest : this_unique_weight >= h.weight
            \/ /\ requested_usage = "Readonly"
               /\ \A w \in heaviest_writing : this_unique_weight > w
    IN  IF by_usage.status = "Succeded" /\ ~no_heavier_other_tasks
        THEN [status |-> "Failed", usage |-> Usage_Unused]
        ELSE by_usage

\* The loop of SchedulingStateMachine::attempt_lock_for_execution from the
\* i-th attempt of task t on: a fresh attempt writes the page, a retry stages
\* the usage in the attempt; the first failure ends the loop.
RECURSIVE attempt_lock_loop(_, _, _, _, _)
attempt_lock_loop(m, t, i, rollback_on_failure, lock_count) ==
    IF m.panic # NoPanic \/ i > Len(m.tasks[t].lock_attempts)
    THEN [m |-> m, lock_count |-> lock_count]
    ELSE LET attempt == m.tasks[t].lock_attempts[i]
             status == attempt_lock_address(m.pages[attempt.page],
                                            m.tasks[t].unique_weight,
                                            attempt.requested_usage)
         IN  CASE status.status = "Succeded" ->
                    attempt_lock_loop(
                        IF rollback_on_failure
                        THEN [m EXCEPT !.pages[attempt.page].usage = status.usage]
                        ELSE [m EXCEPT !.tasks[t].lock_attempts[i].uncommited_usage =
                                            status.usage],
                        t, i + 1, rollback_on_failure, lock_count + 1)
               [] status.status = "Failed" -> [m |-> m, lock_count |-> lock_count]
               [] OTHER -> [m |-> [m EXCEPT !.panic = "counter overflow"],
                            lock_count |-> lock_count]

\* Mutant of attempt_lock_for_execution: every successful attempt writes the
\* page at once, on a retry too (rollback_on_failure not consulted).
RECURSIVE attempt_lock_loop_writes_page(_, _, _, _)
attempt_lock_loop_writes_page(m, t, i, lock_count) ==
    IF m.panic # NoPanic \/ i > Len(m.tasks[t].lock_attempts)
    THEN [m |-> m, lock_count |-> lock_count]
    ELSE LET attempt == m.tasks[t].lock_attempts[i]
             status == attempt_lock_address(m.pages[attempt.page],
                                            m.tasks[t].unique_weight,
                                            attempt.requested_usage)
         IN  CASE status.status = "Succeded" ->
                    attempt_lock_loop_writes_page(
                        [m EXCEPT !.pages[attempt.page].usage = status.usage,
                                  !.tasks[t].lock_attempts[i].uncommited_usage = status.usage],
                        t, i + 1, lock_count + 1)
               [] status.status = "Failed" -> [m |-> m, lock_count |-> lock_count]
               [] OTHER -> [m |-> [m EXCEPT !.panic = "counter overflow"],
                            lock_count |-> lock_count]

attempt_lock_for_execution_writes_page(m, t, rollback_on_failure) ==
    attempt_lock_loop_writes_page(m, t, 1, 0)

\* SchedulingStateMachine::attempt_lock_for_execution
attempt_lock_for_execution(m, t, rollback_on_failure) ==
    attempt_lock_loop(m, t, 1, rollback_on_failure, 0)

\* Mutant of unlock: the last reader is detected at count 0 instead of 1, so
\* releasing the only reader leaves Readonly(0).
unlock_last_reader_at_zero(m, attempt) ==
    LET usage == m.pages[attempt.page].usage
        requested_usage == attempt.requested_usage
    IN  IF m.panic # NoPanic THEN [m |-> m, is_unused_now |-> FALSE]
        ELSE CASE usage.tag = "Readonly" /\ requested_usage = "Readonly" ->
                    IF usage.count = 0
                    THEN [m |-> [m EXCEPT !.pages[attempt.page].usage = Usage_Unused],
                          is_unused_now |-> TRUE]
                    ELSE [m |-> [m EXCEPT !.pages[attempt.page].usage =
                                        Usage_Readonly(usage.count - 1)],
                          is_unused_now |-> FALSE]
               [] usage.tag = "Writable" /\ requested_usage = "Writable" ->
                    [m |-> [m EXCEPT !.pages[attempt.page].usage = Usage_Unused],
                     is_unused_now |-> TRUE]
               [] OTHER ->
                    [m |-> [m EXCEPT !.panic = "unreachable"], is_unused_now |-> FALSE]

\* Mutant of unlock: a request that does not match the page's usage is
\* passed over.
unlock_mismatch_ignored(m, attempt) ==
    LET usage == m.pages[attempt.page].usage
        requested_usage == attempt.requested_usage
    IN  IF m.panic # NoPanic THEN [m |-> m, is_unused_now |-> FALSE]
        ELSE CASE usage.tag = "Readonly" /\ requested_usage = "Readonly" ->
                    IF usage.count = 1
                    THEN [m |-> [m EXCEPT !.pages[attempt.page].usage = Usage_Unused],
                          is_unused_now |-> TRUE]
                    ELSE IF CanDecrement(usage.count)
                    THEN [m |-> [m EXCEPT !.pages[attempt.page].usage =
                                        Usage_Readonly(usage.count - 1)],
                          is_unused_now |-> FALSE]
                    ELSE [m |-> [m EXCEPT !.panic = "counter underflow"],
                          is_unused_now |-> FALSE]
               [] usage.tag = "Writable" /\ requested_usage = "Writable" ->
                    [m |-> [m EXCEPT !.pages[attempt.page].usage = Usage_Unused],
                     is_unused_now |-> TRUE]
               [] OTHER -> [m |-> m, is_unused_now |-> FALSE]

\* Mutant of unlock: the last reader or not, a Readonly unlock leaves the
\* page Unused.
unlock_reader_frees_page(m, attempt) ==
    LET usage == m.pages[attempt.page].usage
        requested_usage == attempt.requested_usage
    IN  IF m.panic # NoPanic THEN [m |-> m, is_unused_now |-> FALSE]
        ELSE CASE usage.tag = "Readonly" /\ requested_usage = "Readonly" ->
                    [m |-> [m EXCEPT !.pages[attempt.page].usage = Usage_Unused],
                     is_unused_now |-> TRUE]
               [] usage.tag = "Writable" /\ requested_usage = "Writable" ->
                    [m |-> [m EXCEPT !.pages[attempt.page].usage = Usage_Unused],
                     is_unused_now |-> TRUE]
               [] OTHER ->
                    [m |-> [m EXCEPT !.panic = "unreachable"], is_unused_now |-> FALSE]

\* SchedulingStateMachine::unlock: [m, is_unused_now]
unlock(m, attempt) ==
    LET usage == m.pages[attempt.page].usage
        requested_usage == attempt.requested_usage
    IN  IF m.panic # NoPanic THEN [m |-> m, is_unused_now |-> FALSE]
        ELSE CASE usage.tag = "Readonly" /\ requested_usage = "Readonly" ->
                    IF usage.count = 1
                    THEN [m |-> [m EXCEPT !.pages[attempt.page].usage = Usage_Unused],
                          is_unused_now |-> TRUE]
                    ELSE IF CanDecrement(usage.count)
                    THEN [m |-> [m EXCEPT !.pages[attempt.page].usage =
                                        Usage_Readonly(usage.count - 1)],
                          is_unused_now |-> FALSE]
                    ELSE [m |-> [m EXCEPT !.panic = "counter underflow"],
                          is_unused_now |-> FALSE]
               [] usage.tag = "Writable" /\ requested_usage = "Writable" ->
                    [m |-> [m EXCEPT !.pages[attempt.page].usage = Usage_Unused],
                     is_unused_now |-> TRUE]
               [] OTHER ->
                    [m |-> [m EXCEPT !.panic = "unreachable"], is_unused_now |-> FALSE]

\* SchedulingStateMachine::rollback_locking: unlock the first lock_count
\* attempts, from attempt i on.
RECURSIVE rollback_locking_loop(_, _, _, _)
rollback_locking_loop(m, t, i, lock_count) ==
    IF i > lock_count THEN m
    ELSE rollback_locking_loop(unlock(m, m.tasks[t].lock_attempts[i]).m, t, i + 1, lock_count)

\* Mutant of rollback_locking: the slice stops one attempt early
\* ([..lock_count - 1]), so the last lock taken stays on its page.
rollback_locking_one_short(m, t, lock_count) ==
    rollback_locking_loop(m, t, 1, lock_count - 1)

\* Mutant of rollback_locking: every lock attempt is unlocked, not the first
\* lock_count of them.
rollback_locking_every_attempt(m, t, lock_count) ==
    rollback_locking_loop(m, t, 1, Len(m.tasks[t].lock_attempts))

\* SchedulingStateMachine::rollback_locking
rollback_locking(m, t, lock_count) == rollback_locking_loop(m, t, 1, lock_count)

\* Mutant of insert_blocked_task: an entry of the same weight is overwritten
\* and nothing is asserted.
insert_blocked_task_overwrites(m, p, t, requested_usage) ==
    LET field == blocked_tasks_field(requested_usage)
        weight == m.tasks[t].unique_weight
    IN  IF m.panic # NoPanic THEN m
        ELSE [m EXCEPT !.pages[p][field] = MapInsert(@, weight, t)]

\* PageInner::insert_blocked_task on page p of the machine: the insert
\* happens, then the assertion that nothing was there.
insert_blocked_task(m, p, t, requested_usage) ==
    LET field == blocked_tasks_field(requested_usage)
        weight == m.tasks[t].unique_weight
        pre_existed == weight \in DOMAIN m.pages[p][field]
        inserted == [m EXCEPT !.pages[p][field] = MapInsert(@, weight, t)]
    IN  IF m.panic # NoPanic THEN m
        ELSE IF pre_existed THEN [inserted EXCEPT !.panic = "assert pre_existed.is_none()"]
        ELSE inserted

\* Mutant of remove_blocked_task: the entry is left in the map.
remove_blocked_task_kept(m, p, requested_usage, unique_weight) == m

\* PageInner::remove_blocked_task on page p of the machine.
remove_blocked_task(m, p, requested_usage, unique_weight) ==
    LET field == blocked_tasks_field(requested_usage)
        removed_entry == unique_weight \in DOMAIN m.pages[p][field]
    IN  IF m.panic # NoPanic THEN m
        ELSE IF removed_entry
        THEN [m EXCEPT !.pages[p][field] = MapRemove(@, unique_weight)]
        ELSE [m EXCEPT !.panic = "assert removed_entry.is_some()"]

\* SchedulingStateMachine::register_blocked_task_into_pages, from attempt i on.
RECURSIVE register_blocked_task_loop(_, _, _)
register_blocked_task_loop(m, t, i) ==
    IF i > Len(m.tasks[t].lock_attempts) THEN m
    ELSE LET attempt == m.tasks[t].lock_attempts[i]
         IN  register_blocked_task_loop(
                insert_blocked_task(m, attempt.page, t, attempt.requested_usage), t, i + 1)

\* Mutant of register_blocked_task_into_pages: the task is registered on the
\* page of its last lock attempt only.
register_blocked_task_into_last_page(m, t) ==
    register_blocked_task_loop(m, t, Len(m.tasks[t].lock_attempts))

\* SchedulingStateMachine::register_blocked_task_into_pages
register_blocked_task_into_pages(m, t) == register_blocked_task_loop(m, t, 1)

\* The snapshot the model keeps of an on_success call: the task and the
\* usage every page records at that instant.
invoke_on_success(m, t) ==
    [m EXCEPT !.on_success_count[t] = @ + 1,
              !.callback = Append(@, [task |-> t,
                                      usage |-> [p \in Pages |-> m.pages[p].usage]])]

\* try_lock_for_task, Retryable success, first loop from attempt i on: commit
\* the staged usage and take the task out of the page's blocked map.
RECURSIVE commit_retry_loop(_, _, _)
commit_retry_loop(m, t, i) ==
    IF m.panic # NoPanic \/ i > Len(m.tasks[t].lock_attempts) THEN m
    ELSE LET attempt == m.tasks[t].lock_attempts[i]
             committed == [m EXCEPT !.pages[attempt.page].usage = attempt.uncommited_usage]
         IN  commit_retry_loop(
                remove_blocked_task(committed, attempt.page, attempt.requested_usage,
                                    m.tasks[t].unique_weight),
                t, i + 1)

\* try_lock_for_task, Retryable success, second loop from attempt i on: for
\* every readonly attempt, queue the heaviest reader still blocked on the page.
RECURSIVE wake_readonly_loop(_, _, _)
wake_readonly_loop(m, t, i) ==
    IF m.panic # NoPanic \/ i > Len(m.tasks[t].lock_attempts) THEN m
    ELSE LET attempt == m.tasks[t].lock_attempts[i]
             page == m.pages[attempt.page]
             heaviest == heaviest_blocked_readonly_task(page)
         IN  wake_readonly_loop(
                IF attempt.requested_usage = "Readonly" /\ heaviest # {}
                THEN LET w == CHOOSE x \in heaviest : TRUE
                     IN  [m EXCEPT !.retryable_task_queue =
                                MapOrInsert(@, w, page.readonly_blocked_tasks[w])]
                ELSE m,
                t, i + 1)

\* Mutant of commit_retry: the first attempt alone is committed and taken
\* out of its page's blocked map.
commit_retry_first_attempt_only(m, t) ==
    IF m.panic # NoPanic THEN m
    ELSE LET attempt == m.tasks[t].lock_attempts[1]
             committed == [m EXCEPT !.pages[attempt.page].usage = attempt.uncommited_usage]
         IN  remove_blocked_task(committed, attempt.page, attempt.requested_usage,
                                 m.tasks[t].unique_weight)

\* try_lock_for_task, lines 483-487: the commit loop over all attempts.
commit_retry(m, t) == commit_retry_loop(m, t, 1)

\* Mutant of wake_readonly: the re-check of the readonly addresses is left out.
wake_readonly_skipped(m, t) == m

\* try_lock_for_task, lines 491-504: the re-check of the readonly addresses.
wake_readonly(m, t) == wake_readonly_loop(m, t, 1)

\* Mutant of try_lock_for_task: rollback_on_failure is true for a retry too.
try_lock_for_task_always_rollback(m, task_source, t) ==
    LET locked == attempt_lock_for_execution(m, t, TRUE)
    IN  IF locked.m.panic # NoPanic THEN [m |-> locked.m, ret |-> "Panic"]
        ELSE IF locked.lock_count < Len(m.tasks[t].lock_attempts)
        THEN [m |-> register_blocked_task_into_pages(
                        rollback_locking(locked.m, t, locked.lock_count), t),
              ret |-> "None"]
        ELSE [m |-> IF task_source = "Retryable"
                    THEN wake_readonly(commit_retry(invoke_on_success(locked.m, t), t), t)
                    ELSE invoke_on_success(locked.m, t),
              ret |-> "Some"]

\* Mutant of try_lock_for_task: on_success is invoked before the lock count
\* is looked at, so for a failed attempt too.
try_lock_for_task_callback_first(m, task_source, t) ==
    LET rollback_on_failure == task_source = "Runnable"
        locked == attempt_lock_for_execution(m, t, rollback_on_failure)
        called == invoke_on_success(locked.m, t)
    IN  IF locked.m.panic # NoPanic THEN [m |-> locked.m, ret |-> "Panic"]
        ELSE IF locked.lock_count < Len(m.tasks[t].lock_attempts)
        THEN [m |-> IF rollback_on_failure
                    THEN register_blocked_task_into_pages(
                            rollback_locking(called, t, locked.lock_count), t)
                    ELSE called,
              ret |-> "None"]
        ELSE [m |-> IF task_source = "Retryable"
                    THEN wake_readonly(commit_retry(called, t), t)
                    ELSE called,
              ret |-> "Some"]

\* SchedulingStateMachine::try_lock_for_task: [m, ret]
try_lock_for_task(m, task_source, t) ==
    LET rollback_on_failure == task_source = "Runnable"
        locked == attempt_lock_for_execution(m, t, rollback_on_failure)
    IN  IF locked.m.panic # NoPanic THEN [m |-> locked.m, ret |-> "Panic"]
        ELSE IF locked.lock_count < Len(m.tasks[t].lock_attempts)
        THEN [m |-> IF rollback_on_failure
                    THEN register_blocked_task_into_pages(
                            rollback_locking(locked.m, t, locked.lock_count), t)
                    ELSE locked.m,
              ret |-> "None"]
        ELSE [m |-> IF task_source = "Retryable"
                    THEN wake_readonly(commit_retry(invoke_on_success(locked.m, t), t), t)
                    ELSE invoke_on_success(locked.m, t),
              ret |-> "Some"]

\* SchedulingStateMachine::unlock_after_execution, from attempt i on.
RECURSIVE unlock_after_execution_loop(_, _, _)
unlock_after_execution_loop(m, t, i) ==
    IF m.panic # NoPanic \/ i > Len(m.tasks[t].lock_attempts) THEN m
    ELSE LET attempt == m.tasks[t].lock_attempts[i]
             unlocked == unlock(m, attempt)
             page == unlocked.m.pages[attempt.page]
             heaviest_uncontended_now == heaviest_blocked_task(page)
         IN  unlock_after_execution_loop(
                IF unlocked.is_unused_now /\ heaviest_uncontended_now # {}
                THEN LET h == CHOOSE x \in heaviest_uncontended_now : TRUE
                         uncontended_task == page[h.map][h.weight]
                     IN  [unlocked.m EXCEPT !.retryable_task_queue =
                                MapOrInsert(@, unlocked.m.tasks[uncontended_task].unique_weight,
                                            uncontended_task)]
                ELSE unlocked.m,
                t, i + 1)

\* Mutant of unlock_after_execution: the pages are released, the heaviest
\* blocked task of a page that became unused is not queued.
RECURSIVE unlock_only_loop(_, _, _)
unlock_only_loop(m, t, i) ==
    IF m.panic # NoPanic \/ i > Len(m.tasks[t].lock_attempts) THEN m
    ELSE unlock_only_loop(unlock(m, m.tasks[t].lock_attempts[i]).m, t, i + 1)

unlock_after_execution_no_promotion(m, t) == unlock_only_loop(m, t, 1)

\* Mutant of unlock_after_execution: the heaviest blocked task of a released
\* page is queued whether or not the page became unused.
RECURSIVE unlock_always_promotes_loop(_, _, _)
unlock_always_promotes_loop(m, t, i) ==
    IF m.panic # NoPanic \/ i > Len(m.tasks[t].lock_attempts) THEN m
    ELSE LET attempt == m.tasks[t].lock_attempts[i]
             unlocked == unlock(m, attempt)
             page == unlocked.m.pages[attempt.page]
             heaviest_uncontended_now == heaviest_blocked_task(page)
         IN  unlock_always_promotes_loop(
                IF heaviest_uncontended_now # {}
                THEN LET h == CHOOSE x \in heaviest_uncontended_now : TRUE
                         uncontended_task == page[h.map][h.weight]
                     IN  [unlocked.m EXCEPT !.retryable_task_queue =
                                MapOrInsert(@, unlocked.m.tasks[uncontended_task].unique_weight,
                                            uncontended_task)]
                ELSE unlocked.m,
                t, i + 1)

unlock_after_execution_always_promotes(m, t) == unlock_always_promotes_loop(m, t, 1)

\* Mutant of unlock_after_execution: the task moved to the retryable queue
\* is taken out of the blocked map of the page that became unused.
RECURSIVE unlock_unparks_promoted_loop(_, _, _)
unlock_unparks_promoted_loop(m, t, i) ==
    IF m.panic # NoPanic \/ i > Len(m.tasks[t].lock_attempts) THEN m
    ELSE LET attempt == m.tasks[t].lock_attempts[i]
             unlocked == unlock(m, attempt)
             page == unlocked.m.pages[attempt.page]
             heaviest_uncontended_now == heaviest_blocked_task(page)
         IN  unlock_unparks_promoted_loop(
                IF unlocked.is_unused_now /\ heaviest_uncontended_now # {}
                THEN LET h == CHOOSE x \in heaviest_uncontended_now : TRUE
                         uncontended_task == page[h.map][h.weight]
                     IN  [unlocked.m EXCEPT
                            !.retryable_task_queue =
                                MapOrInsert(@, unlocked.m.tasks[uncontended_task].unique_weight,
                                            uncontended_task),
                            !.pages[attempt.page][h.map] = MapRemove(@, h.weight)]
                ELSE unlocked.m,
                t, i + 1)

unlock_after_execution_unparks_promoted(m, t) == unlock_unparks_promoted_loop(m, t, 1)

\* SchedulingStateMachine::unlock_after_execution
unlock_after_execution(m, t) == unlock_after_execution_loop(m, t, 1)

\* -------------------------------------------------- the public operations

\* Mutant of schedule_task: the counters are incremented for a granted task
\* only.
schedule_task_counts_granted_only(m, t) ==
    LET locked == try_lock_for_task(m, "Runnable", t)
        counted == IF locked.ret = "Some"
                   THEN increment_self(increment_self(locked.m, "total_task_count"),
                                       "active_task_count")
                   ELSE locked.m
    IN  [m |-> counted, ret |-> IF counted.panic # NoPanic THEN "Panic" ELSE locked.ret]

\* SchedulingStateMachine::schedule_task: [m, ret]
schedule_task(m, t) ==
    LET locked == try_lock_for_task(m, "Runnable", t)
        counted == increment_self(increment_self(locked.m, "total_task_count"),
                                  "active_task_count")
    IN  [m |-> counted, ret |-> IF counted.panic # NoPanic THEN "Panic" ELSE locked.ret]

\* BTreeMap::first_key_value, for the mutant below.
MinKey(map) == CHOOSE k \in DOMAIN map : \A j \in DOMAIN map : k <= j

\* Mutant of schedule_retryable_task: pop_first instead of pop_last.
schedule_retryable_task_pop_first(m) ==
    IF DOMAIN m.retryable_task_queue = {}
    THEN [m |-> m, ret |-> "None", task |-> 0]
    ELSE LET first_key == MinKey(m.retryable_task_queue)
             t == m.retryable_task_queue[first_key]
             popped == [m EXCEPT !.retryable_task_queue = MapRemove(@, first_key)]
             locked == try_lock_for_task(popped, "Retryable", t)
             counted == increment_self(locked.m, "reschedule_count")
             mapped == IF locked.ret = "Some"
                       THEN increment_self(counted, "rescheduled_task_count")
                       ELSE counted
         IN  [m |-> mapped,
              ret |-> IF mapped.panic # NoPanic THEN "Panic" ELSE locked.ret,
              task |-> t]

\* Mutant of schedule_retryable_task: the last entry is read and attempted
\* and stays in the queue.
schedule_retryable_task_peek_last(m) ==
    IF DOMAIN m.retryable_task_queue = {}
    THEN [m |-> m, ret |-> "None", task |-> 0]
    ELSE LET last_key == MaxKey(m.retryable_task_queue)
             t == m.retryable_task_queue[last_key]
             locked == try_lock_for_task(m, "Retryable", t)
             counted == increment_self(locked.m, "reschedule_count")
             mapped == IF locked.ret = "Some"
                       THEN increment_self(counted, "rescheduled_task_count")
                       ELSE counted
         IN  [m |-> mapped,
              ret |-> IF mapped.panic # NoPanic THEN "Panic" ELSE locked.ret,
              task |-> t]

\* Mutant of schedule_retryable_task: a task whose retry failed is put back
\* into the queue.
schedule_retryable_task_requeue_failed(m) ==
    IF DOMAIN m.retryable_task_queue = {}
    THEN [m |-> m, ret |-> "None", task |-> 0]
    ELSE LET last_key == MaxKey(m.retryable_task_queue)
             t == m.retryable_task_queue[last_key]
             popped == [m EXCEPT !.retryable_task_queue = MapRemove(@, last_key)]
             locked == try_lock_for_task(popped, "Retryable", t)
             counted == increment_self(locked.m, "reschedule_count")
             mapped == IF locked.ret = "Some"
                       THEN increment_self(counted, "rescheduled_task_count")
                       ELSE [counted EXCEPT !.retryable_task_queue =
                                MapOrInsert(@, last_key, t)]
         IN  [m |-> mapped,
              ret |-> IF mapped.panic # NoPanic THEN "Panic" ELSE locked.ret,
              task |-> t]

\* Mutant of schedule_retryable_task: reschedule_count is incremented inside
\* map(), that is, for a retry that returned Some only.
schedule_retryable_task_counts_success_only(m) ==
    IF DOMAIN m.retryable_task_queue = {}
    THEN [m |-> m, ret |-> "None", task |-> 0]
    ELSE LET last_key == MaxKey(m.retryable_task_queue)
             t == m.retryable_task_queue[last_key]
             popped == [m EXCEPT !.retryable_task_queue = MapRemove(@, last_key)]
             locked == try_lock_for_task(popped, "Retryable", t)
             mapped == IF locked.ret = "Some"
                       THEN increment_self(increment_self(locked.m, "reschedule_count"),
                                           "rescheduled_task_count")
                       ELSE locked.m
         IN  [m |-> mapped,
              ret |-> IF mapped.panic # NoPanic THEN "Panic" ELSE locked.ret,
              task |-> t]

\* SchedulingStateMachine::schedule_retryable_task: [m, ret, task]; task is
\* the popped task, 0 when the queue was empty.
schedule_retryable_task(m) ==
    IF DOMAIN m.retryable_task_queue = {}
    THEN [m |-> m, ret |-> "None", task |-> 0]
    ELSE LET last_key == MaxKey(m.retryable_task_queue)
             t == m.retryable_task_queue[last_key]
             popped == [m EXCEPT !.retryable_task_queue = MapRemove(@, last_key)]
             locked == try_lock_for_task(popped, "Retryable", t)
             counted == increment_self(locked.m, "reschedule_count")
             mapped == IF locked.ret = "Some"
                       THEN increment_self(counted, "rescheduled_task_count")
                       ELSE counted
         IN  [m |-> mapped,
              ret |-> IF mapped.panic # NoPanic THEN "Panic" ELSE locked.ret,
              task |-> t]

\* Mutant of deschedule_task: handled_task_count is not incremented.
deschedule_task_not_handled(m, t) ==
    unlock_after_execution(decrement_self(m, "active_task_count"), t)

\* SchedulingStateMachine::deschedule_task
deschedule_task(m, t) ==
    unlock_after_execution(
        increment_self(decrement_self(m, "active_task_count"), "handled_task_count"), t)

\* Mutant of clear_retryable_tasks: the heaviest entry alone is dropped.
clear_retryable_tasks_pop_last(m) ==
    IF DOMAIN m.retryable_task_queue = {} THEN m
    ELSE [m EXCEPT !.retryable_task_queue = MapRemove(@, MaxKey(@))]

\* SchedulingStateMachine::clear_retryable_tasks
clear_retryable_tasks(m) == [m EXCEPT !.retryable_task_queue = EmptyMap]

\* SchedulingStateMachine::is_empty
is_empty(m) == m.active_task_count = 0

\* Mutant of has_retryable_task: a queue of one task is taken for an empty one.
has_retryable_task_needs_two(m) == Cardinality(DOMAIN m.retryable_task_queue) >= 2

\* SchedulingStateMachine::has_retryable_task
has_retryable_task(m) == DOMAIN m.retryable_task_queue # {}

\* SchedulingStateMachine::retryable_task_count
retryable_task_count(m) == Cardinality(DOMAIN m.retryable_task_queue)

\* ------------------------------------------------------------ the state

VARIABLES
    pages,                  \* address -> PageInner (the page loader's cache)
    tasks,                  \* task handle -> TaskInner (weight, lock attempts)
    retryable_task_queue,
    active_task_count,
    handled_task_count,
    reschedule_count,
    rescheduled_task_count,
    total_task_count,
    panic,                  \* the fatal condition reached, NoPanic if none
    owner,                  \* what the calling scheduler knows of each task
    on_success_count,       \* task handle -> number of on_success calls for it
    last                    \* the last call: operation, task, return value, callback

vars ==
    <<pages, tasks, retryable_task_queue, active_task_count, handled_task_count,
      reschedule_count, rescheduled_task_count, total_task_count, panic, owner,
      on_success_count, last>>

\* The machine record of the current state, no callback made yet.
Machine ==
    [pages |-> pages,
     tasks |-> tasks,
     retryable_task_queue |-> retryable_task_queue,
     active_task_count |-> active_task_count,
     handled_task_count |-> handled_task_count,
     reschedule_count |-> reschedule_count,
     rescheduled_task_count |-> rescheduled_task_count,
     total_task_count |-> total_task_count,
     panic |-> panic,
     on_success_count |-> on_success_count,
     callback |-> <<>>]

\* The next state is the machine record m.
Becomes(m) ==
    /\ pages' = m.pages
    /\ tasks' = m.tasks
    /\ retryable_task_queue' = m.retryable_task_queue
    /\ active_task_count' = m.active_task_count
    /\ handled_task_count' = m.handled_task_count
    /\ reschedule_count' = m.reschedule_count
    /\ rescheduled_task_count' = m.rescheduled_task_count
    /\ total_task_count' = m.total_task_count
    /\ panic' = m.panic
    /\ on_success_count' = m.on_success_count

\* SchedulingStateMachine::default, tasks created by create_task from any
\* transactions with the indices 0, 1, ... (unique), pages from the loader.
Init ==
    /\ pages = [p \in Pages |-> NewPage]
    /\ tasks \in {[t \in TaskIds |-> create_task(txs[t], t - 1)] :
                    txs \in [TaskIds -> Transactions]}
    /\ retryable_task_queue = EmptyMap
    /\ active_task_count = 0
    /\ handled_task_count = 0
    /\ reschedule_count = 0
    /\ rescheduled_task_count = 0
    /\ total_task_count = 0
    /\ panic = NoPanic
    /\ owner = [t \in TaskIds |-> "Unscheduled"]
    /\ on_success_count = [t \in TaskIds |-> 0]
    /\ last = [op |-> "default", task |-> 0, ret |-> "None", callback |-> <<>>]

\* The owner offers a task it has not offered before.
ScheduleTask(t) ==
    /\ panic = NoPanic
    /\ owner[t] = "Unscheduled"
    /\ \E r \in {schedule_task(Machine, t)} :
           /\ Becomes(r.m)
           /\ owner' = [owner EXCEPT ![t] = CASE r.ret = "Some" -> "Granted"
                                              [] r.ret = "None" -> "Parked"
                                              [] OTHER -> @]
           /\ last' = [op |-> "schedule_task", task |-> t, ret |-> r.ret,
                       callback |-> r.m.callback]

\* The owner asks for the next retryable task.
ScheduleRetryableTask ==
    /\ panic = NoPanic
    /\ \E r \in {schedule_retryable_task(Machine)} :
           /\ Becomes(r.m)
           /\ owner' = IF r.ret = "Some" THEN [owner EXCEPT ![r.task] = "Granted"]
                       ELSE owner
           /\ last' = [op |-> "schedule_retryable_task", task |-> r.task, ret |-> r.ret,
                       callback |-> r.m.callback]

\* The owner reports a task it was granted as executed.
DescheduleTask(t) ==
    /\ panic = NoPanic
    /\ owner[t] = "Granted"
    /\ \E m \in {deschedule_task(Machine, t)} :
           /\ Becomes(m)
           /\ owner' = [owner EXCEPT ![t] = IF m.panic = NoPanic THEN "Descheduled" ELSE @]
           /\ last' = [op |-> "deschedule_task", task |-> t,
                       ret |-> IF m.panic = NoPanic THEN "Unit" ELSE "Panic",
                       callback |-> m.callback]

Next ==
    \/ \E t \in TaskIds : ScheduleTask(t)
    \/ ScheduleRetryableTask
    \/ \E t \in TaskIds : DescheduleTask(t)

Spec == Init /\ [][Next]_vars

\* ------------------------------------------- the owner offering in index order

\* The owner offers a task once every task of a smaller index is offered.
ScheduleTaskInOrder(t) ==
    /\ \A u \in TaskIds : u < t => owner[u] # "Unscheduled"
    /\ ScheduleTask(t)

OrderedNext ==
    \/ \E t \in TaskIds : ScheduleTaskInOrder(t)
    \/ ScheduleRetryableTask
    \/ \E t \in TaskIds : DescheduleTask(t)

OrderedSpec == Init /\ [][OrderedNext]_vars

\* ------------------------- an owner that also clears the queue and re-offers

\* The owner drops the retryable tasks.
ClearRetryableTasks ==
    /\ panic = NoPanic
    /\ \E m \in {clear_retryable_tasks(Machine)} : Becomes(m)
    /\ owner' = owner
    /\ last' = [op |-> "clear_retryable_tasks", task |-> 0, ret |-> "Unit",
                callback |-> <<>>]

\* The owner offers again a task that schedule_task answered None for, as
\* tests::test_schedule_conflicting_task does.
RescheduleTask(t) ==
    /\ panic = NoPanic
    /\ owner[t] = "Parked"
    /\ \E r \in {schedule_task(Machine, t)} :
           /\ Becomes(r.m)
           /\ owner' = [owner EXCEPT ![t] = IF r.ret = "Some" THEN "Granted" ELSE @]
           /\ last' = [op |-> "schedule_task", task |-> t, ret |-> r.ret,
                       callback |-> r.m.callback]

ReofferNext ==
    \/ Next
    \/ ClearRetryableTasks
    \/ \E t \in TaskIds : RescheduleTask(t)

\* Addresses the lightest task requests at most, where the owner re-offers.
ReofferLastTaskLocks == 1

\* The initial states followed for the re-offering owner: the code does not
\* tell one page from another, so the first address of task 1 is taken to be
\* A; the lightest task requests at most ReofferLastTaskLocks addresses.
ReofferInit ==
    /\ Init
    /\ tasks[1].lock_attempts[1].page = "A"
    /\ Len(tasks[MaxTasks].lock_attempts) <= ReofferLastTaskLocks

ReofferSpec == ReofferInit /\ [][ReofferNext]_vars

\* ------------------------------------------- the owner that keeps going

\* Addresses the lightest task requests at most, where the owner's progress
\* is followed.
LiveLastTaskLocks == 1

\* The initial states followed for the owner that keeps going: the code
\* does not tell one page from another, so the first address of task 1 is
\* taken to be A; the lightest task requests at most LiveLastTaskLocks
\* addresses.
LiveInit ==
    /\ Init
    /\ tasks[1].lock_attempts[1].page = "A"
    /\ Len(tasks[MaxTasks].lock_attempts) <= LiveLastTaskLocks

\* The owner asks for the next retryable task while has_retryable_task().
DrainRetryableTask ==
    /\ has_retryable_task(Machine)
    /\ ScheduleRetryableTask

LiveNext ==
    \/ \E t \in TaskIds : ScheduleTask(t)
    \/ DrainRetryableTask
    \/ \E t \in TaskIds : DescheduleTask(t)

\* When the owner can offer task t, report task t, ask for a retryable task.
\* Each is the condition under which the action is enabled: past its guard
\* an action is a total assignment, and it changes a counter, the queue or
\* `panic`.
CanSchedule(t) == panic = NoPanic /\ owner[t] = "Unscheduled"

CanDeschedule(t) == panic = NoPanic /\ owner[t] = "Granted"

CanDrain == panic = NoPanic /\ has_retryable_task(Machine)

\* The owner offers every task, reports every task it was granted and keeps
\* asking for retryable tasks while there are some: weak fairness of each
\* of these actions, written out as
\*     WF_vars(A) == []<>~(ENABLED <<A>>_vars) \/ []<><<A>>_vars
\* with the enabling condition given above.
LiveSpec ==
    /\ LiveInit
    /\ [][LiveNext]_vars
    /\ \A t \in TaskIds :
            []<>(~CanSchedule(t)) \/ []<><<ScheduleTask(t)>>_vars
    /\ \A t \in TaskIds :
            []<>(~CanDeschedule(t)) \/ []<><<DescheduleTask(t)>>_vars
    /\ []<>(~CanDrain) \/ []<><<DrainRetryableTask>>_vars

\* ------------------------------------------------- the owner that errs

\* Addresses a task requests at most, where the owner errs.
MisuseMaxLocks == 1

\* Indices the tasks are created with where the owner errs: task t is given
\* t - 1, as in Init, or the index of an earlier task.
MisuseIndices ==
    {index \in [TaskIds -> 0..(MaxTasks - 1)] : \A t \in TaskIds : index[t] <= t - 1}

\* The initial states followed for the owner that errs: a new machine, the
\* tasks created with indices that need not differ.  The code does not tell
\* one page from another, so the first address of task 1 is taken to be A.
MisuseInit ==
    /\ pages = [p \in Pages |-> NewPage]
    /\ tasks \in {[t \in TaskIds |-> create_task(txs[t], index[t])] :
                    <<txs, index>> \in
                        {x \in [TaskIds -> Transactions] \X MisuseIndices :
                            \A t \in TaskIds :
                                Len(x[1][t].writable) + Len(x[1][t].readonly)
                                    <= MisuseMaxLocks}}
    /\ tasks[1].lock_attempts[1].page = "A"
    /\ retryable_task_queue = EmptyMap
    /\ active_task_count = 0
    /\ handled_task_count = 0
    /\ reschedule_count = 0
    /\ rescheduled_task_count = 0
    /\ total_task_count = 0
    /\ panic = NoPanic
    /\ owner = [t \in TaskIds |-> "Unscheduled"]
    /\ on_success_count = [t \in TaskIds |-> 0]
    /\ last = [op |-> "default", task |-> 0, ret |-> "None", callback |-> <<>>]

\* The owner reports as executed a task it does not hold: one that was never
\* granted, or one it has reported already.
DescheduleTaskNotHeld(t) ==
    /\ panic = NoPanic
    /\ owner[t] # "Granted"
    /\ \E m \in {deschedule_task(Machine, t)} :
           /\ Becomes(m)
           /\ owner' = owner
           /\ last' = [op |-> "deschedule_task", task |-> t,
                       ret |-> IF m.panic = NoPanic THEN "Unit" ELSE "Panic",
                       callback |-> m.callback]

MisuseNext ==
    \/ Next
    \/ \E t \in TaskIds : RescheduleTask(t)
    \/ \E t \in TaskIds : DescheduleTaskNotHeld(t)

MisuseSpec == MisuseInit /\ [][MisuseNext]_vars

\* ------------------------------------------- the functions taken one by one

\* Task indices for create_task: the ends of the range, the index of
\* tests::test_create_task and two near the upper end.
UnitIndices == {0, 3, UniqueWeightMax - 10, UniqueWeightMax - 5, UniqueWeightMax}

\* An index for each task, each its own. The tasks are alike but for what
\* UnitInit draws, so their indices are taken in increasing order.
UnitTaskIndices ==
    {index \in [TaskIds -> UnitIndices] :
        \A t, u \in TaskIds : t < u => index[t] < index[u]}

\* Usages a page can record.
UnitUsages == {Usage_Unused, Usage_Readonly(1), Usage_Readonly(2), Usage_Writable}

\* Values of a counter: the ends of its range and one in between.
UnitCounts == {0, 1, CounterMax}

\* The contended page: the pages are alike, so one stands for each of them.
UnitPages == {"A"}

\* The transaction that requests page p alone, with the given usage.
UnitTransaction(p, requested_usage) ==
    IF requested_usage = "Writable" THEN [writable |-> <<p>>, readonly |-> <<>>]
    ELSE [writable |-> <<>>, readonly |-> <<p>>]

\* The blocked map of the given tasks, keyed by their weights.
UnitBlockedMap(created, S) ==
    [k \in {created[t].unique_weight : t \in S} |->
        CHOOSE t \in S : created[t].unique_weight = k]

\* A machine with one contended page X: every task is created by create_task
\* with an index of its own and requests X, readonly or writable; some of the
\* tasks are registered as blocked on X, whose usage is any of UnitUsages.
UnitInit ==
    \E X \in UnitPages : \E usage \in UnitUsages :
    \E index \in UnitTaskIndices :
    \E requested \in [TaskIds -> {"Readonly", "Writable"}] :
    \E blocked \in SUBSET TaskIds :
    \E count \in UnitCounts :
        LET created == [t \in TaskIds |->
                            create_task(UnitTransaction(X, requested[t]), index[t])]
        IN  /\ tasks = created
            /\ pages = [p \in Pages |->
                    IF p = X
                    THEN [usage |-> usage,
                          writable_blocked_tasks |->
                            UnitBlockedMap(created,
                                {t \in blocked : requested[t] = "Writable"}),
                          readonly_blocked_tasks |->
                            UnitBlockedMap(created,
                                {t \in blocked : requested[t] = "Readonly"})]
                    ELSE NewPage]
            /\ retryable_task_queue = EmptyMap
            /\ active_task_count = count
            /\ handled_task_count = 0
            /\ reschedule_count = 0
            /\ rescheduled_task_count = 0
            /\ total_task_count = 0
            /\ panic = NoPanic
            /\ owner = [t \in TaskIds |-> IF t \in blocked THEN "Parked" ELSE "Unscheduled"]
            /\ on_success_count = [t \in TaskIds |-> 0]
            /\ last = [op |-> "create_task", task |-> 0, ret |-> "None", callback |-> <<>>,
                       index |-> index, usage |-> Usage_Unused, page |-> NewPage, value |-> 0]

\* attempt_lock_address for the lock attempt of task t, the outcome kept in
\* `last`.
CallAttemptLockAddress(t) ==
    /\ \E attempt \in {tasks[t].lock_attempts[1]} :
       \E status \in {attempt_lock_address(pages[attempt.page], tasks[t].unique_weight,
                                           attempt.requested_usage)} :
           last' = [op |-> "attempt_lock_address", task |-> t, ret |-> status.status,
                    callback |-> <<>>, index |-> last.index, usage |-> status.usage,
                    page |-> NewPage, value |-> 0]
    /\ UNCHANGED <<pages, tasks, retryable_task_queue, active_task_count,
                   handled_task_count, reschedule_count, rescheduled_task_count,
                   total_task_count, panic, owner, on_success_count>>

\* task_index of task t, the outcome kept in `last`.
CallTaskIndex(t) ==
    /\ last' = [op |-> "task_index", task |-> t, ret |-> "Some", callback |-> <<>>,
                index |-> last.index, usage |-> Usage_Unused,
                page |-> NewPage, value |-> task_index(tasks[t])]
    /\ UNCHANGED <<pages, tasks, retryable_task_queue, active_task_count,
                   handled_task_count, reschedule_count, rescheduled_task_count,
                   total_task_count, panic, owner, on_success_count>>

\* create_task once more for the transaction and the index of task t, the
\* unique weight of the task it makes kept in `last`.
CallCreateTask(t) ==
    /\ \E attempt \in {tasks[t].lock_attempts[1]} :
       \E created \in {create_task(UnitTransaction(attempt.page, attempt.requested_usage),
                                   last.index[t])} :
           last' = [op |-> "create_task", task |-> t, ret |-> "Some", callback |-> <<>>,
                    index |-> last.index, usage |-> Usage_Unused,
                    page |-> NewPage, value |-> created.unique_weight]
    /\ UNCHANGED <<pages, tasks, retryable_task_queue, active_task_count,
                   handled_task_count, reschedule_count, rescheduled_task_count,
                   total_task_count, panic, owner, on_success_count>>

\* unlock for the lock attempt of task t, the outcome kept in `last`: what
\* it returns, and the page as it leaves it.
CallUnlock(t) ==
    /\ \E attempt \in {tasks[t].lock_attempts[1]} :
       \E r \in {unlock(Machine, attempt)} :
           last' = [op |-> "unlock", task |-> t,
                    ret |-> IF r.m.panic # NoPanic THEN "Panic"
                            ELSE IF r.is_unused_now THEN "True" ELSE "False",
                    callback |-> <<>>, index |-> last.index,
                    usage |-> r.m.pages[attempt.page].usage,
                    page |-> r.m.pages[attempt.page], value |-> 0]
    /\ UNCHANGED <<pages, tasks, retryable_task_queue, active_task_count,
                   handled_task_count, reschedule_count, rescheduled_task_count,
                   total_task_count, panic, owner, on_success_count>>

\* Counter::increment_self on active_task_count, the outcome kept in `last`.
CallIncrementSelf ==
    /\ \E m \in {increment_self(Machine, "active_task_count")} :
           last' = [op |-> "increment_self", task |-> 0,
                    ret |-> IF m.panic # NoPanic THEN "Panic" ELSE "Unit",
                    callback |-> <<>>, index |-> last.index, usage |-> Usage_Unused,
                    page |-> NewPage, value |-> m.active_task_count]
    /\ UNCHANGED <<pages, tasks, retryable_task_queue, active_task_count,
                   handled_task_count, reschedule_count, rescheduled_task_count,
                   total_task_count, panic, owner, on_success_count>>

\* Counter::decrement_self on active_task_count, the outcome kept in `last`.
CallDecrementSelf ==
    /\ \E m \in {decrement_self(Machine, "active_task_count")} :
           last' = [op |-> "decrement_self", task |-> 0,
                    ret |-> IF m.panic # NoPanic THEN "Panic" ELSE "Unit",
                    callback |-> <<>>, index |-> last.index, usage |-> Usage_Unused,
                    page |-> NewPage, value |-> m.active_task_count]
    /\ UNCHANGED <<pages, tasks, retryable_task_queue, active_task_count,
                   handled_task_count, reschedule_count, rescheduled_task_count,
                   total_task_count, panic, owner, on_success_count>>

\* deschedule_task of task t, the outcome kept in `last`: whether it
\* aborts, active_task_count and the page as it leaves them.
CallDescheduleTask(t) ==
    /\ \E attempt \in {tasks[t].lock_attempts[1]} :
       \E m \in {deschedule_task(Machine, t)} :
           last' = [op |-> "deschedule_task", task |-> t,
                    ret |-> IF m.panic # NoPanic THEN "Panic" ELSE "Unit",
                    callback |-> <<>>, index |-> last.index,
                    usage |-> m.pages[attempt.page].usage,
                    page |-> m.pages[attempt.page], value |-> m.active_task_count]
    /\ UNCHANGED <<pages, tasks, retryable_task_queue, active_task_count,
                   handled_task_count, reschedule_count, rescheduled_task_count,
                   total_task_count, panic, owner, on_success_count>>

UnitNext ==
    \/ \E t \in TaskIds : CallAttemptLockAddress(t)
    \/ \E t \in TaskIds : CallTaskIndex(t)
    \/ \E t \in TaskIds : CallCreateTask(t)
    \/ \E t \in TaskIds : CallUnlock(t)
    \/ CallIncrementSelf
    \/ CallDecrementSelf
    \/ \E t \in TaskIds : CallDescheduleTask(t)

UnitSpec == UnitInit /\ [][UnitNext]_vars

\* ------------------------------------------------- vocabulary of the claims

weight(t) == tasks[t].unique_weight

\* Task t requests page p with the given usage.
Requests(t, p, requested_usage) ==
    \E i \in DOMAIN tasks[t].lock_attempts :
        /\ tasks[t].lock_attempts[i].page = p
        /\ tasks[t].lock_attempts[i].requested_usage = requested_usage

RequestsPage(t, p) == Requests(t, p, "Readonly") \/ Requests(t, p, "Writable")

\* The tasks a scheduling call returned Some for and that are not descheduled.
Granted == {t \in TaskIds : owner[t] = "Granted"}

WritersHolding(p) == {t \in Granted : Requests(t, p, "Writable")}

ReadersHolding(p) == {t \in Granted : Requests(t, p, "Readonly")}

\* Two tasks request a common page and one of them writes it.
Conflict(t, u) ==
    \E p \in Pages :
        \/ Requests(t, p, "Writable") /\ RequestsPage(u, p)
        \/ Requests(u, p, "Writable") /\ RequestsPage(t, p)

UsageOf(p) == pages[p].usage

\* The step is a call of the operation, the one `last` then names.
Called(op) == last'.op = op

\* ---------------------------------------------------------------- claims

\* C1: writer mutual exclusion.  In every reachable state no page has two
\* granted, not yet descheduled tasks that both requested it Writable.
C1_WriterMutualExclusion ==
    \A p \in Pages : Cardinality(WritersHolding(p)) <= 1

\* C1 witness: a second writer of a page was granted (by a retry) after the
\* first writer of that page was descheduled.
C1_Witness ==
    \E p \in Pages : \E t, u \in TaskIds :
        /\ t # u
        /\ Requests(t, p, "Writable") /\ Requests(u, p, "Writable")
        /\ owner[t] = "Descheduled"
        /\ owner[u] = "Granted"
        /\ last.op = "schedule_retryable_task" /\ last.task = u /\ last.ret = "Some"

\* C2: page usage is the set of granted holders.  Writable iff exactly one
\* granted writer and no granted reader; Readonly(n) iff n >= 1 granted
\* readers and no granted writer; Unused iff no granted task requested the
\* page.  Readonly(0) is never the usage.
C2_UsageIsHolders ==
    \A p \in Pages :
        /\ UsageOf(p) # Usage_Readonly(0)
        /\ UsageOf(p) =
            IF WritersHolding(p) # {} THEN Usage_Writable
            ELSE IF ReadersHolding(p) # {} THEN Usage_Readonly(Cardinality(ReadersHolding(p)))
            ELSE Usage_Unused
        /\ WritersHolding(p) # {} =>
                Cardinality(WritersHolding(p)) = 1 /\ ReadersHolding(p) = {}

\* C2 witness: a page went from two readers to one by a deschedule, while
\* a writer holds another page.
C2_Witness ==
    \E p, q \in Pages : \E t \in TaskIds :
        /\ p # q
        /\ UsageOf(p) = Usage_Readonly(1)
        /\ UsageOf(q) = Usage_Writable
        /\ last.op = "deschedule_task" /\ last.task = t /\ Requests(t, p, "Readonly")

\* C3: starvation guard.  A scheduling call that grants task t (fresh or
\* retry) finds, on every page t requested, no blocked writer with a strictly
\* greater weight, and for a Writable request no blocked reader with a
\* strictly greater weight either.
C3_StarvationGuard ==
    [][\A t \in TaskIds :
         (owner[t] # "Granted" /\ owner'[t] = "Granted") =>
            \A i \in DOMAIN tasks[t].lock_attempts :
                LET attempt == tasks[t].lock_attempts[i]
                    page == pages[attempt.page]
                IN  /\ \A w \in DOMAIN page.writable_blocked_tasks : w <= weight(t)
                    /\ attempt.requested_usage = "Writable" =>
                            \A w \in DOMAIN page.readonly_blocked_tasks : w <= weight(t)]_vars

\* C3 witness: schedule_task refused a fresh task although every page is
\* Unused, because a heavier task is registered as blocked on one of its pages.
C3_Witness ==
    /\ \A p \in Pages : UsageOf(p) = Usage_Unused
    /\ last.op = "schedule_task" /\ last.ret = "None"
    /\ \E p \in Pages : \E w \in DOMAIN pages[p].writable_blocked_tasks
                            \cup DOMAIN pages[p].readonly_blocked_tasks :
            /\ RequestsPage(last.task, p)
            /\ w > weight(last.task)

\* C4: rollback of a failed fresh schedule.  When schedule_task returns None
\* every page's usage and the retryable queue are what they were, the lock
\* attempts are untouched, and the blocked maps differ only by entries of the
\* task's own weight.
C4_RollbackRestores ==
    [][(Called("schedule_task") /\ last'.ret = "None") =>
         /\ \A p \in Pages : pages'[p].usage = pages[p].usage
         /\ retryable_task_queue' = retryable_task_queue
         /\ tasks' = tasks
         /\ \A p \in Pages :
              \A f \in {"writable_blocked_tasks", "readonly_blocked_tasks"} :
                /\ DOMAIN pages[p][f] \subseteq DOMAIN pages'[p][f]
                /\ \A w \in DOMAIN pages[p][f] : pages'[p][f][w] = pages[p][f][w]
                /\ DOMAIN pages'[p][f] \ DOMAIN pages[p][f] \subseteq {weight(last'.task)}]_vars

\* C4 witness: schedule_task returned None for a task whose first attempt,
\* a Readonly request on a page held Readonly, succeeded before the second
\* attempt hit the conflict.
C4_Witness ==
    /\ last.op = "schedule_task" /\ last.ret = "None"
    /\ LET attempts == tasks[last.task].lock_attempts
       IN  /\ Len(attempts) = 2
           /\ pages[attempts[1].page].usage.tag = "Readonly"
           /\ attempt_lock_address(pages[attempts[1].page], weight(last.task),
                                   attempts[1].requested_usage).status = "Succeded"
           /\ attempt_lock_address(pages[attempts[2].page], weight(last.task),
                                   attempts[2].requested_usage).status = "Failed"

\* C5: counter balance.  total_task_count = active_task_count +
\* handled_task_count in every reachable state.
C5_CounterBalance ==
    total_task_count = active_task_count + handled_task_count

\* C5 witness: some task was handled, some is still active, and one of the
\* active ones was refused by schedule_task.
C5_Witness ==
    /\ handled_task_count >= 1
    /\ active_task_count >= 2
    /\ \E t \in TaskIds : owner[t] = "Parked"

\* The tasks offered to schedule_task so far.
Offered == {t \in TaskIds : owner[t] # "Unscheduled"}

\* No task outside S has been offered.
OnlyOffered(S) == Offered \subseteq S

\* C6: write-write contention.  For tasks t, u writing a common page p, t
\* with the smaller index, and no other task offered: schedule_task(t) on the
\* fresh machine returns Some; schedule_task(u) while t holds returns None
\* and leaves u in p's writable blocked map; deschedule_task(t) leaves u at
\* the head of the retryable queue; the next schedule_retryable_task returns
\* Some for u.
C6_WriteWriteContention ==
    [][\A t, u \in TaskIds : \A p \in Pages :
         (/\ t # u
          /\ Requests(t, p, "Writable") /\ Requests(u, p, "Writable")
          /\ task_index(tasks[t]) < task_index(tasks[u])
          /\ OnlyOffered({t, u})) =>
            /\ (Offered = {} /\ Called("schedule_task") /\ last'.task = t) =>
                    last'.ret = "Some"
            /\ (owner[t] = "Granted" /\ Offered = {t}
                    /\ Called("schedule_task") /\ last'.task = u) =>
                    /\ last'.ret = "None"
                    /\ weight(u) \in DOMAIN pages'[p].writable_blocked_tasks
                    /\ pages'[p].writable_blocked_tasks[weight(u)] = u
            /\ (owner[t] = "Granted" /\ owner[u] = "Parked" /\ Called("deschedule_task")) =>
                    /\ DOMAIN retryable_task_queue' # {}
                    /\ \A k \in DOMAIN retryable_task_queue' : k <= weight(u)
                    /\ retryable_task_queue'[weight(u)] = u
            /\ (owner[t] = "Descheduled" /\ owner[u] = "Parked"
                    /\ Called("schedule_retryable_task")) =>
                    /\ last'.ret = "Some"
                    /\ last'.task = u
                    /\ task_index(tasks[last'.task]) = task_index(tasks[u])]_vars

\* C6 witness: the end of the scenario, the second writer granted by the
\* first retry after the first writer was descheduled.
C6_Witness ==
    \E t, u \in TaskIds : \E p \in Pages :
        /\ t # u
        /\ Requests(t, p, "Writable") /\ Requests(u, p, "Writable")
        /\ task_index(tasks[t]) < task_index(tasks[u])
        /\ Offered = {t, u}
        /\ owner[t] = "Descheduled" /\ owner[u] = "Granted"
        /\ last = [op |-> "schedule_retryable_task", task |-> u, ret |-> "Some",
                   callback |-> last.callback]
        /\ reschedule_count = 1 /\ rescheduled_task_count = 1

\* C7: shared-read concurrency.  As long as no two offered tasks conflict
\* (they share pages only Readonly), every offered task was granted by its
\* schedule_task call, none is parked, and the retryable queue is empty,
\* whatever was descheduled in between.
C7_SharedReadConcurrency ==
    (\A t, u \in Offered : t # u => ~Conflict(t, u)) =>
        /\ \A t \in Offered : owner[t] \in {"Granted", "Descheduled"}
        /\ retryable_task_queue = EmptyMap
        /\ reschedule_count = 0
        /\ last.op = "schedule_task" => last.ret = "Some"

\* C7 witness: every task reads one common page and schedule_task has just
\* granted the last of them while all the earlier readers still hold it.
C7_Witness ==
    \E p \in Pages :
        /\ \A t \in TaskIds : Requests(t, p, "Readonly")
        /\ UsageOf(p) = Usage_Readonly(MaxTasks)
        /\ Granted = TaskIds
        /\ last.op = "schedule_task" /\ last.ret = "Some"

\* W writes X, R1 and R2 read X, R1 is the heavier reader, X is the only
\* page two of them share, and no other task has been offered.
ReaderWakeScenario(W, R1, R2, X) ==
    /\ W # R1 /\ W # R2 /\ R1 # R2
    /\ Requests(W, X, "Writable")
    /\ Requests(R1, X, "Readonly")
    /\ Requests(R2, X, "Readonly")
    /\ weight(R1) > weight(R2)
    /\ \A q \in Pages \ {X} : Cardinality({t \in {W, R1, R2} : RequestsPage(t, q)}) <= 1
    /\ OnlyOffered({W, R1, R2})

\* C8: opportunistic reader wake.  In the scenario above, with R1 and R2
\* parked behind W: deschedule_task(W) leaves exactly R1 in the retryable
\* queue; the retry that follows returns Some for R1 and leaves R2 in the
\* queue; a retry while R1 holds and R2 is parked returns Some for R2 and R1
\* keeps holding.
C8_OpportunisticReaderWake ==
    [][\A W, R1, R2 \in TaskIds : \A X \in Pages :
         ReaderWakeScenario(W, R1, R2, X) =>
            /\ (owner[W] = "Granted" /\ owner[R1] = "Parked" /\ owner[R2] = "Parked"
                    /\ Called("deschedule_task")) =>
                    /\ DOMAIN retryable_task_queue' = {weight(R1)}
                    /\ retryable_task_queue'[weight(R1)] = R1
            /\ (owner[W] = "Descheduled" /\ owner[R1] = "Parked" /\ owner[R2] = "Parked"
                    /\ Called("schedule_retryable_task")) =>
                    /\ last'.ret = "Some" /\ last'.task = R1
                    /\ DOMAIN retryable_task_queue' = {weight(R2)}
                    /\ retryable_task_queue'[weight(R2)] = R2
                    /\ handled_task_count' = handled_task_count
            /\ (owner[W] = "Descheduled" /\ owner[R1] = "Granted" /\ owner[R2] = "Parked"
                    /\ Called("schedule_retryable_task")) =>
                    /\ last'.ret = "Some" /\ last'.task = R2
                    /\ owner'[R1] = "Granted" /\ owner'[R2] = "Granted"
                    /\ pages'[X].usage = Usage_Readonly(2)]_vars

\* C8 witness: the end of the scenario, both readers granted by retries
\* after one deschedule and holding X together.
C8_Witness ==
    \E W, R1, R2 \in TaskIds : \E X \in Pages :
        /\ ReaderWakeScenario(W, R1, R2, X)
        /\ owner[W] = "Descheduled" /\ owner[R1] = "Granted" /\ owner[R2] = "Granted"
        /\ handled_task_count = 1
        /\ rescheduled_task_count = 2
        /\ last.op = "schedule_retryable_task" /\ last.task = R2 /\ last.ret = "Some"
        /\ UsageOf(X) = Usage_Readonly(2)

\* C9: retry order.  A schedule_retryable_task call on an empty queue
\* returns None and changes nothing; on a non-empty queue it removes the
\* entry with the greatest weight (the smallest index), attempts that task
\* and no other, and counts one reschedule.
C9_RetryOrder ==
    [][Called("schedule_retryable_task") =>
         IF DOMAIN retryable_task_queue = {}
         THEN /\ last'.ret = "None" /\ last'.task = 0
              /\ UNCHANGED <<pages, tasks, retryable_task_queue, active_task_count,
                             handled_task_count, reschedule_count, rescheduled_task_count,
                             total_task_count, panic, owner, on_success_count>>
         ELSE LET t == last'.task
              IN  /\ t \in TaskIds
                  /\ weight(t) \in DOMAIN retryable_task_queue
                  /\ retryable_task_queue[weight(t)] = t
                  /\ \A k \in DOMAIN retryable_task_queue :
                        /\ k <= weight(t)
                        /\ task_index(tasks[retryable_task_queue[k]]) >= task_index(tasks[t])
                  /\ weight(t) \notin DOMAIN retryable_task_queue'
                  /\ reschedule_count' = reschedule_count + 1
                  /\ \A u \in TaskIds \ {t} :
                        /\ tasks'[u] = tasks[u]
                        /\ owner'[u] = owner[u]
                        /\ on_success_count'[u] = on_success_count[u]]_vars

\* C9 witness: a retry took and granted a task that only writes (so it woke
\* no reader) while a lighter task was queued, and the lighter one is still
\* queued.
C9_Witness ==
    /\ last.op = "schedule_retryable_task" /\ last.task # 0 /\ last.ret = "Some"
    /\ \A i \in DOMAIN tasks[last.task].lock_attempts :
            tasks[last.task].lock_attempts[i].requested_usage = "Writable"
    /\ \E k \in DOMAIN retryable_task_queue : k < weight(last.task)

\* C10: all-or-nothing locking.  A scheduling call for task t that returns
\* Some leaves every page t requested recording t's lock (Writable, or one
\* reader more than before) and no other page changed; one that returns None,
\* a retry included, leaves every page's usage as it was and t not granted.
C10_AllOrNothing ==
    [][(Called("schedule_task") \/ (Called("schedule_retryable_task") /\ last'.task # 0)) =>
         LET t == last'.task
         IN  /\ last'.ret \in {"Some", "None"}
             /\ last'.ret = "Some" =>
                    /\ owner'[t] = "Granted"
                    /\ \A p \in Pages :
                         pages'[p].usage =
                            IF Requests(t, p, "Writable") THEN Usage_Writable
                            ELSE IF Requests(t, p, "Readonly")
                                 THEN Usage_Readonly(pages[p].usage.count + 1)
                            ELSE pages[p].usage
             /\ last'.ret = "None" =>
                    /\ owner'[t] # "Granted"
                    /\ \A p \in Pages : pages'[p].usage = pages[p].usage]_vars

\* C10 witness: a retry returned None after its first attempt succeeded and
\* was staged in the task, and the page of that attempt is still Unused.
C10_Witness ==
    /\ last.op = "schedule_retryable_task" /\ last.ret = "None" /\ last.task # 0
    /\ LET attempts == tasks[last.task].lock_attempts
       IN  /\ Len(attempts) = 2
           /\ attempts[1].uncommited_usage # Usage_Unused
           /\ pages[attempts[1].page].usage = Usage_Unused
           /\ attempt_lock_address(pages[attempts[1].page], weight(last.task),
                                   attempts[1].requested_usage).status = "Succeded"
           /\ attempt_lock_address(pages[attempts[2].page], weight(last.task),
                                   attempts[2].requested_usage).status = "Failed"

\* The tasks registered in one blocked map of page p, and in either of them.
BlockedIn(p, requested_usage) ==
    LET map == pages[p][blocked_tasks_field(requested_usage)]
    IN  {map[k] : k \in DOMAIN map}

BlockedOn(p) == BlockedIn(p, "Writable") \cup BlockedIn(p, "Readonly")

\* The tasks the retryable queue holds.
Queued == {retryable_task_queue[k] : k \in DOMAIN retryable_task_queue}

\* The usage of page p once task t has released its lock on it.
ReleasedUsage(t, p) ==
    IF Requests(t, p, "Readonly") /\ pages[p].usage.count > 1
    THEN Usage_Readonly(pages[p].usage.count - 1)
    ELSE Usage_Unused

\* C11: promotion on release.  deschedule_task(t) releases every lock t held
\* and touches no other page's usage; for each page of t that becomes Unused
\* and has a blocked task, the one heaviest task of that page's two blocked
\* maps is in the retryable queue afterwards; the queue gains no other task
\* and keeps every entry it had, once.
C11_PromotionOnRelease ==
    [][Called("deschedule_task") =>
         LET t == last'.task
             freed == {p \in Pages : RequestsPage(t, p) /\ pages'[p].usage = Usage_Unused}
             promoted == {u \in TaskIds : \E p \in freed :
                            /\ u \in BlockedOn(p)
                            /\ \A v \in BlockedOn(p) : weight(v) <= weight(u)}
         IN  /\ \A p \in Pages :
                    pages'[p].usage = IF RequestsPage(t, p) THEN ReleasedUsage(t, p)
                                      ELSE pages[p].usage
             /\ \A p \in freed : BlockedOn(p) # {} =>
                    Cardinality({u \in BlockedOn(p) :
                                    \A v \in BlockedOn(p) : weight(v) <= weight(u)}) = 1
             /\ DOMAIN retryable_task_queue' =
                    DOMAIN retryable_task_queue \cup {weight(u) : u \in promoted}
             /\ \A u \in promoted : retryable_task_queue'[weight(u)] = u
             /\ \A k \in DOMAIN retryable_task_queue :
                    retryable_task_queue'[k] = retryable_task_queue[k]
             /\ Cardinality(Queued') = Cardinality(DOMAIN retryable_task_queue')]_vars

\* C11 witness: deschedule_task freed a page that has a blocked reader and a
\* lighter blocked writer, and the queue holds the reader and not the writer.
C11_Witness ==
    /\ last.op = "deschedule_task" /\ last.ret = "Unit"
    /\ \E p \in Pages : \E r \in BlockedIn(p, "Readonly") : \E w \in BlockedIn(p, "Writable") :
            /\ RequestsPage(last.task, p)
            /\ UsageOf(p) = Usage_Unused
            /\ weight(w) < weight(r)
            /\ r \in Queued /\ w \notin Queued

\* Task t requests page p and no other page.
RequestsOnly(t, p) == \A q \in Pages : RequestsPage(t, q) <=> q = p

\* C12 as stated: whenever a page is held Readonly by two or more tasks with
\* a writer blocked on it, descheduling one of the readers decrements the count
\* and leaves the retryable queue as it was, and a writer blocked on a page
\* enters the queue only in a step that makes that page Unused.
C12_NoPromotionAsStated ==
    [][Called("deschedule_task") =>
         LET t == last'.task
         IN  \A p \in Pages :
                (/\ Requests(t, p, "Readonly")
                 /\ pages[p].usage.count >= 2
                 /\ BlockedIn(p, "Writable") # {}) =>
                    /\ pages'[p].usage = Usage_Readonly(pages[p].usage.count - 1)
                    /\ retryable_task_queue' = retryable_task_queue
                    /\ \A w \in BlockedIn(p, "Writable") : w \notin Queued']_vars

\* C12: no promotion while readers remain.  When a page p is held Readonly
\* by two or more tasks and a writer is blocked on it, descheduling one of the
\* readers decrements the count of p, and the retryable queue gains nothing
\* but tasks blocked on another page of that reader that became Unused (so
\* nothing when p is the reader's only page).  A writer whose only page is p
\* enters the queue only in a deschedule_task step that makes p Unused.
C12_NoPromotionWhileReadersRemain ==
    [][/\ Called("deschedule_task") =>
            LET t == last'.task
            IN  \A p \in Pages :
                   (/\ Requests(t, p, "Readonly")
                    /\ pages[p].usage.count >= 2
                    /\ BlockedIn(p, "Writable") # {}) =>
                       /\ pages'[p].usage = Usage_Readonly(pages[p].usage.count - 1)
                       /\ \A k \in DOMAIN retryable_task_queue' \ DOMAIN retryable_task_queue :
                            \E q \in Pages \ {p} :
                                /\ RequestsPage(t, q)
                                /\ pages'[q].usage = Usage_Unused
                                /\ retryable_task_queue'[k] \in BlockedOn(q)
                       /\ \A k \in DOMAIN retryable_task_queue :
                            /\ k \in DOMAIN retryable_task_queue'
                            /\ retryable_task_queue'[k] = retryable_task_queue[k]
                       /\ RequestsOnly(t, p) => retryable_task_queue' = retryable_task_queue
       /\ \A p \in Pages : \A w \in BlockedIn(p, "Writable") :
            (RequestsOnly(w, p) /\ w \notin Queued /\ w \in Queued') =>
                /\ Called("deschedule_task")
                /\ pages[p].usage # Usage_Unused
                /\ pages'[p].usage = Usage_Unused]_vars

\* C12 witness: a reader of a page, not the last one, was descheduled while
\* a writer is blocked on the page: one reader remains, the queue is empty.
C12_Witness ==
    /\ last.op = "deschedule_task" /\ last.ret = "Unit"
    /\ \E p \in Pages :
            /\ Requests(last.task, p, "Readonly")
            /\ UsageOf(p) = Usage_Readonly(1)
            /\ BlockedIn(p, "Writable") # {}
            /\ Queued = {}

\* C13: parking on every page.  When schedule_task(t) returns None, t is
\* afterwards registered under its weight in the blocked map matching its
\* requested usage on every page it requested, whichever page failed, and in
\* no other map; the other entries of the maps stay.
C13_ParkedOnEveryPage ==
    [][(Called("schedule_task") /\ last'.ret = "None") =>
         LET t == last'.task
         IN  \A p \in Pages : \A requested_usage \in {"Readonly", "Writable"} :
                LET field == blocked_tasks_field(requested_usage)
                IN  /\ Requests(t, p, requested_usage) =>
                        /\ weight(t) \in DOMAIN pages'[p][field]
                        /\ pages'[p][field][weight(t)] = t
                    /\ ~Requests(t, p, requested_usage) =>
                        weight(t) \notin DOMAIN pages'[p][field]
                    /\ DOMAIN pages'[p][field] \ {weight(t)} = DOMAIN pages[p][field]
                    /\ \A k \in DOMAIN pages[p][field] :
                        pages'[p][field][k] = pages[p][field][k]]_vars

\* C13 witness: schedule_task returned None for a task of two pages whose
\* first page is Unused with nobody else blocked on it (so that lock was
\* taken and rolled back), and the task is registered on both pages.
C13_Witness ==
    /\ last.op = "schedule_task" /\ last.ret = "None"
    /\ LET attempts == tasks[last.task].lock_attempts
       IN  /\ Len(attempts) = 2
           /\ UsageOf(attempts[1].page) = Usage_Unused
           /\ BlockedOn(attempts[1].page) = {last.task}
           /\ last.task \in BlockedIn(attempts[1].page, attempts[1].requested_usage)
           /\ last.task \in BlockedIn(attempts[2].page, attempts[2].requested_usage)

RegisteredEverywhere(t) ==
    \A p \in Pages : \A requested_usage \in {"Readonly", "Writable"} :
        Requests(t, p, requested_usage) => t \in BlockedIn(p, requested_usage)

Lockable(t) ==
    \A i \in DOMAIN tasks[t].lock_attempts :
        LET attempt == tasks[t].lock_attempts[i]
        IN  attempt_lock_address(pages[attempt.page], weight(t),
                                 attempt.requested_usage).status = "Succeded"

\* C16 as stated: a retry of a task popped from the retryable queue always
\* locks all of its pages, that is, it returns Some.
C16_RetriesPreValidated ==
    [][(Called("schedule_retryable_task") /\ last'.task # 0) => last'.ret = "Some"]_vars

\* C16: a retry is not pre-validated but needs no rollback.  A retry of a
\* task popped from the retryable queue returns Some exactly when every page
\* the task requests is lockable for it at the call, and None otherwise; a
\* retry returning None leaves every page, usage and blocked maps, as it
\* was, the locks it took before the failing one being staged in the task only.
C16_RetryNeedsNoRollback ==
    [][(Called("schedule_retryable_task") /\ last'.task # 0) =>
         LET t == last'.task
         IN  /\ last'.ret = IF Lockable(t) THEN "Some" ELSE "None"
             /\ last'.ret = "None" => pages' = pages]_vars

\* C16 witness: a retry returned None because a heavier task, granted after
\* the retried task was queued, holds a page the retried task requests.
C16_Witness ==
    /\ last.op = "schedule_retryable_task" /\ last.ret = "None" /\ last.task # 0
    /\ \E u \in Granted : \E p \in Pages :
            /\ weight(u) > weight(last.task)
            /\ RequestsPage(u, p) /\ RequestsPage(last.task, p)
            /\ ~Lockable(last.task)

\* C17: a failed retry is not lost.  A schedule_retryable_task call that
\* pops task t and returns None leaves the queue as it was less t, changes no
\* page (t stays registered on all its pages) and leaves t parked.  A parked
\* task that is not in the queue, as t is from then on, is in the queue after
\* any deschedule_task that makes Unused a page on which it is the heaviest
\* blocked task.
C17_FailedRetryNotLost ==
    [][/\ \A t \in TaskIds :
            (Called("schedule_retryable_task") /\ last'.task = t /\ last'.ret = "None") =>
                /\ retryable_task_queue' = MapRemove(retryable_task_queue, weight(t))
                /\ t \notin Queued'
                /\ pages' = pages
                /\ RegisteredEverywhere(t)'
                /\ owner'[t] = "Parked" /\ owner[t] = "Parked"
       /\ \A t \in TaskIds :
            (/\ owner[t] = "Parked" /\ t \notin Queued
             /\ Called("deschedule_task")
             /\ \E p \in Pages :
                    /\ t \in BlockedOn(p)
                    /\ pages[p].usage # Usage_Unused /\ pages'[p].usage = Usage_Unused
                    /\ \A v \in BlockedOn(p) : weight(v) <= weight(t)) =>
                /\ t \in Queued'
                /\ retryable_task_queue'[weight(t)] = t]_vars

\* C17 witness: a parked task of two pages carries the staged usage of a
\* retry that failed on its second page; the deschedule_task just made freed
\* that page, the task is the heaviest blocked on it and is in the queue.
C17_Witness ==
    /\ last.op = "deschedule_task" /\ last.ret = "Unit"
    /\ reschedule_count > rescheduled_task_count
    /\ \E t \in TaskIds :
            LET attempts == tasks[t].lock_attempts
            IN  /\ owner[t] = "Parked"
                /\ Len(attempts) = 2
                /\ attempts[1].uncommited_usage # Usage_Unused
                /\ RequestsPage(last.task, attempts[2].page)
                /\ UsageOf(attempts[2].page) = Usage_Unused
                /\ \A v \in BlockedOn(attempts[2].page) : weight(v) <= weight(t)
                /\ t \in Queued

\* C18: retry counters.  A schedule_retryable_task call that pops a task
\* adds exactly 1 to reschedule_count whatever it returns and exactly 1 to
\* rescheduled_task_count when it returns Some, 0 when it returns None; a call
\* on an empty queue and every other operation change neither; and
\* rescheduled_task_count <= reschedule_count in every reachable state.
C18_RetryCounters ==
    /\ [](rescheduled_task_count <= reschedule_count)
    /\ [][IF Called("schedule_retryable_task") /\ last'.task # 0
          THEN /\ DOMAIN retryable_task_queue # {}
               /\ reschedule_count' = reschedule_count + 1
               /\ last'.ret \in {"Some", "None"}
               /\ rescheduled_task_count' =
                     rescheduled_task_count + (IF last'.ret = "Some" THEN 1 ELSE 0)
          ELSE /\ Called("schedule_retryable_task") => DOMAIN retryable_task_queue = {}
               /\ reschedule_count' = reschedule_count
               /\ rescheduled_task_count' = rescheduled_task_count]_vars

\* C18 witness: after a retry that returned None and a later one that
\* returned Some, reschedule_count is 2 and rescheduled_task_count is 1.
C18_Witness ==
    /\ last.op = "schedule_retryable_task" /\ last.ret = "Some"
    /\ reschedule_count = 2
    /\ rescheduled_task_count = 1

\* The tasks offered and not yet descheduled: running, blocked or retryable.
Active == {t \in TaskIds : owner[t] \in {"Granted", "Parked"}}

C20_CallbackExactlyOnce ==
    /\ [](\A t \in TaskIds :
            on_success_count[t] =
                IF owner[t] \in {"Granted", "Descheduled"} THEN 1 ELSE 0)
    /\ [][\A t \in TaskIds :
            /\ ((Called("schedule_task") \/ Called("schedule_retryable_task"))
                    /\ last'.task = t /\ last'.ret = "Some") =>
                    /\ Len(last'.callback) = 1
                    /\ last'.callback[1].task = t
                    /\ on_success_count' = [on_success_count EXCEPT ![t] = @ + 1]
            /\ (last'.ret # "Some" \/ Called("deschedule_task")) =>
                    /\ last'.callback = <<>>
                    /\ on_success_count' = on_success_count]_vars

\* C20 witness: a task answered None when offered, granted by a retry (its
\* staged usage is set) and now descheduled has had on_success invoked once,
\* and some retry before had returned None.
C20_Witness ==
    /\ last.op = "deschedule_task" /\ last.ret = "Unit"
    /\ owner[last.task] = "Descheduled"
    /\ tasks[last.task].lock_attempts[1].uncommited_usage # Usage_Unused
    /\ reschedule_count > rescheduled_task_count
    /\ on_success_count[last.task] = 1

\* The usage of page p records a lock of task t taken on top of `before`.
RecordsLock(usage, before, t, p) ==
    IF Requests(t, p, "Writable") THEN usage = Usage_Writable
    ELSE usage = Usage_Readonly(before.count + 1)

\* C21: callback at the instant the locks are held.  For a task granted by
\* schedule_task and for a task granted by schedule_retryable_task alike, at
\* the moment on_success is invoked every page the task requested records
\* the task's lock in its usage.
C21_CallbackWithLocksHeld ==
    [][\A t \in TaskIds :
         ((Called("schedule_task") \/ Called("schedule_retryable_task"))
            /\ last'.task = t /\ last'.ret = "Some") =>
                /\ Len(last'.callback) = 1
                /\ \A p \in Pages : RequestsPage(t, p) =>
                        RecordsLock(last'.callback[1].usage[p], pages[p].usage, t, p)]_vars

\* C21 for schedule_task only: at the moment on_success is invoked by a
\* schedule_task call, every page the task requested records its lock.
C21_FreshCallbackWithLocksHeld ==
    [][\A t \in TaskIds :
         (Called("schedule_task") /\ last'.task = t /\ last'.ret = "Some") =>
                /\ Len(last'.callback) = 1
                /\ \A p \in Pages : RequestsPage(t, p) =>
                        RecordsLock(last'.callback[1].usage[p], pages[p].usage, t, p)]_vars

\* A retry granted a task, and at its on_success call a page the task
\* requested was still recorded Unused although the task holds it now.
C21_RetryCallbackBeforeCommit ==
    /\ last.op = "schedule_retryable_task" /\ last.ret = "Some"
    /\ \E p \in Pages :
            /\ RequestsPage(last.task, p)
            /\ last.callback[1].usage[p] = Usage_Unused
            /\ UsageOf(p) # Usage_Unused

\* C22: no fatal condition under correct usage.  With unique task indices,
\* distinct pages within a task, each task offered to schedule_task once and
\* deschedule_task called once for each granted task, no reachable state has
\* hit an unreachable!() of unlock, the assertion of insert_blocked_task or
\* of remove_blocked_task, or a counter overflow or underflow, and no call
\* ended in one.
C22_NoFatalCondition ==
    /\ panic = NoPanic
    /\ last.ret # "Panic"

\* C22 witness: all tasks were offered, at least two of them were parked
\* and granted by retries, one retry failed, all were descheduled, and no
\* fatal condition was hit.
C22_Witness ==
    /\ panic = NoPanic
    /\ \A t \in TaskIds : owner[t] = "Descheduled"
    /\ rescheduled_task_count >= 2
    /\ reschedule_count > rescheduled_task_count

\* C23 as stated: with a writer W of unique weight 5 registered as blocked
\* on page X, a Readonly request on X by a reader R of unique weight 10 fails.
C23_ReaderRejectedAsStated ==
    [][\A R, W \in TaskIds : \A X \in Pages :
         (/\ Called("attempt_lock_address") /\ last'.task = R
          /\ weight(R) = 10 /\ Requests(R, X, "Readonly")
          /\ weight(W) = 5 /\ W \in BlockedIn(X, "Writable")) =>
                last'.ret = "Failed"]_vars

\* C23: the starvation guard with the weights 5 and 10.  With a writer of
\* weight 5 registered as blocked on page X and no heavier writer blocked
\* there, a Readonly request on X by a reader of weight 10 succeeds when X is
\* Unused or Readonly and fails only when X is Writable.  With the weights
\* exchanged, a writer of weight 10 blocked on X, the Readonly request of a
\* reader of weight 5 fails whatever the usage of X.
C23_StarvationGuardScenario ==
    [][\A R, W \in TaskIds : \A X \in Pages :
         (/\ Called("attempt_lock_address") /\ last'.task = R
          /\ Requests(R, X, "Readonly")
          /\ W \in BlockedIn(X, "Writable")) =>
            /\ (/\ weight(R) = 10 /\ weight(W) = 5
                /\ \A V \in BlockedIn(X, "Writable") : weight(V) <= weight(W)) =>
                    last'.ret = IF UsageOf(X) = Usage_Writable THEN "Failed"
                                ELSE "Succeded"
            /\ (weight(R) = 5 /\ weight(W) = 10) => last'.ret = "Failed"]_vars

\* C23 witness: the reader of weight 10 was granted page X, held Readonly,
\* ahead of the blocked writer of weight 5.
C23_Witness ==
    /\ last.op = "attempt_lock_address" /\ last.ret = "Succeded"
    /\ weight(last.task) = 10
    /\ \E X \in Pages : \E W \in BlockedIn(X, "Writable") :
            /\ Requests(last.task, X, "Readonly")
            /\ weight(W) = 5
            /\ UsageOf(X) = Usage_Readonly(1)
            /\ last.usage = Usage_Readonly(2)

\* C24: guard decision rule.  A lock attempt of task t on a page X whose
\* usage permits it (Unused, or Readonly for a Readonly request) succeeds if
\* and only if (a) no task blocked on X in either map is strictly heavier
\* than t, or (b) the request is Readonly and t is strictly heavier than every
\* writer blocked on X.  So a reader succeeds whenever no writer is blocked
\* on X, heavier readers blocked there or not; and an attempt the usage does
\* not permit fails.
C24_GuardDecisionRule ==
    [][\A t \in TaskIds : \A X \in Pages :
         (Called("attempt_lock_address") /\ last'.task = t /\ RequestsPage(t, X)) =>
            LET permitted == \/ UsageOf(X) = Usage_Unused
                             \/ /\ UsageOf(X).tag = "Readonly"
                                /\ Requests(t, X, "Readonly")
                a == \A v \in BlockedOn(X) : weight(v) <= weight(t)
                b == /\ Requests(t, X, "Readonly")
                     /\ \A v \in BlockedIn(X, "Writable") : weight(v) < weight(t)
            IN  /\ permitted => (last'.ret = "Succeded" <=> (a \/ b))
                /\ ~permitted => last'.ret = "Failed"
                /\ (permitted /\ Requests(t, X, "Readonly")
                        /\ BlockedIn(X, "Writable") = {}) => last'.ret = "Succeded"
                /\ last'.ret = "Succeded" =>
                        last'.usage = IF Requests(t, X, "Writable") THEN Usage_Writable
                                      ELSE Usage_Readonly(UsageOf(X).count + 1)]_vars

\* C24 witness: a reader was granted a Readonly page by clause (b) alone:
\* a heavier reader is blocked on the page and every blocked writer,
\* there is one, is lighter than it.
C24_Witness ==
    /\ last.op = "attempt_lock_address" /\ last.ret = "Succeded"
    /\ \E X \in Pages :
            /\ Requests(last.task, X, "Readonly")
            /\ UsageOf(X).tag = "Readonly"
            /\ \E v \in BlockedIn(X, "Readonly") : weight(v) > weight(last.task)
            /\ BlockedIn(X, "Writable") # {}
            /\ \A v \in BlockedIn(X, "Writable") : weight(v) < weight(last.task)

\* Tasks t and u both request page p and one of them writes it.
ConflictOn(t, u, p) ==
    \/ Requests(t, p, "Writable") /\ RequestsPage(u, p)
    \/ Requests(u, p, "Writable") /\ RequestsPage(t, p)

\* C25: an Unused page is not enough.  While a task T, moved to the
\* retryable queue by the release of page X and not yet retried, is still
\* registered as blocked on X, schedule_task of a fresh task F lighter than T
\* that conflicts with T on X returns None although X is Unused; X stays
\* Unused and F is parked on it.
C25_UnusedPageNotEnough ==
    [][\A T, F \in TaskIds : \A X \in Pages :
         (/\ Called("schedule_task") /\ last'.task = F
          /\ T \in Queued
          /\ UsageOf(X) = Usage_Unused
          /\ weight(F) < weight(T)
          /\ ConflictOn(F, T, X)) =>
                /\ T \in BlockedOn(X)
                /\ last'.ret = "None"
                /\ pages'[X].usage = Usage_Unused
                /\ F \in BlockedOn(X)']_vars

\* C25 witness: schedule_task has just returned None for a task that
\* requests only page X, X is Unused, and a heavier conflicting task is in
\* the retryable queue, registered on X.
C25_Witness ==
    /\ last.op = "schedule_task" /\ last.ret = "None"
    /\ handled_task_count = 1
    /\ \E X \in Pages : \E T \in Queued :
            /\ RequestsOnly(last.task, X)
            /\ UsageOf(X) = Usage_Unused
            /\ T \in BlockedOn(X)
            /\ weight(last.task) < weight(T)
            /\ ConflictOn(last.task, T, X)

\* C26: higher-priority overtaking.  Q and H request only page X and
\* conflict on it, H is the heavier.  (1) With X Unused, Q in the retryable
\* queue and H heavier than every task blocked on X, schedule_task(H) returns
\* Some.  (2) While H holds X and the queue holds Q alone, the retry returns
\* None for Q and leaves the queue empty.  (3) deschedule_task(H), H the
\* only holder of X and Q the heaviest task blocked on X, puts Q into the
\* queue, and the retry that
\* finds Q heading the queue with X Unused returns Some for Q.  (4) When Q,
\* the last task not descheduled, is descheduled, is_empty() is true.
C26_HigherPriorityOvertaking ==
    [][\A Q, H \in TaskIds : \A X \in Pages :
         (/\ RequestsOnly(Q, X) /\ RequestsOnly(H, X)
          /\ ConflictOn(Q, H, X)
          /\ weight(H) > weight(Q)) =>
            /\ (/\ Called("schedule_task") /\ last'.task = H
                /\ UsageOf(X) = Usage_Unused
                /\ Q \in Queued
                /\ \A v \in BlockedOn(X) : weight(v) < weight(H)) =>
                    /\ last'.ret = "Some"
                    /\ Q \in Queued'
            /\ (/\ Called("schedule_retryable_task")
                /\ owner[H] = "Granted"
                /\ Queued = {Q}) =>
                    /\ last'.ret = "None" /\ last'.task = Q
                    /\ retryable_task_queue' = EmptyMap
            /\ (/\ Called("deschedule_task") /\ last'.task = H
                /\ \A u \in Granted \ {H} : ~RequestsPage(u, X)
                /\ Q \in BlockedOn(X)
                /\ \A v \in BlockedOn(X) : weight(v) <= weight(Q)) =>
                    Q \in Queued'
            /\ (/\ Called("schedule_retryable_task")
                /\ owner[H] = "Descheduled"
                /\ Q \in Queued /\ \A v \in Queued : weight(v) <= weight(Q)
                /\ UsageOf(X) = Usage_Unused) =>
                    /\ last'.ret = "Some" /\ last'.task = Q
            /\ (/\ Called("deschedule_task") /\ last'.task = Q
                /\ \A u \in TaskIds \ {Q} : owner[u] = "Descheduled") =>
                    is_empty(Machine)']_vars

\* C26 witness: the end of the scenario of tests::test_schedule_retryable_task2.
\* Three writers of one page: the lightest was parked and queued, the
\* heaviest, offered last, overtook it, one retry failed, one succeeded, all
\* are descheduled and the machine is empty.
C26_Witness ==
    /\ last.op = "deschedule_task" /\ last.ret = "Unit"
    /\ \A u \in TaskIds : owner[u] = "Descheduled"
    /\ \E X \in Pages : \A u \in TaskIds : RequestsOnly(u, X) /\ Requests(u, X, "Writable")
    /\ \A u \in TaskIds : weight(u) >= weight(last.task)
    /\ reschedule_count = 2 /\ rescheduled_task_count = 1
    /\ is_empty(Machine)

\* C27: clear_retryable_tasks.  The call empties the retryable queue, so
\* has_retryable_task() is false and retryable_task_count() is 0 after it,
\* and changes nothing else: pages (usage and blocked maps), tasks and the
\* five counters are as before.
C27_ClearRetryableTasks ==
    [][Called("clear_retryable_tasks") =>
         /\ retryable_task_queue' = EmptyMap
         /\ ~has_retryable_task(Machine)'
         /\ retryable_task_count(Machine)' = 0
         /\ UNCHANGED <<pages, tasks, active_task_count, handled_task_count,
                        reschedule_count, rescheduled_task_count, total_task_count,
                        panic, on_success_count>>]_vars

\* C27 witness: after one release and no retry, clear_retryable_tasks has
\* left the queue empty, every page Unused and two tasks registered as
\* blocked.
C27_Witness ==
    /\ last.op = "clear_retryable_tasks"
    /\ retryable_task_queue = EmptyMap
    /\ handled_task_count = 1
    /\ reschedule_count = 0
    /\ Cardinality({t \in TaskIds : owner[t] = "Parked" /\ RegisteredEverywhere(t)}) = 2
    /\ \A p \in Pages : UsageOf(p) = Usage_Unused

\* Page p is free for task t: Unused, or Readonly and t requests it Readonly.
FreeFor(t, p) ==
    \/ UsageOf(p) = Usage_Unused
    \/ UsageOf(p).tag = "Readonly" /\ Requests(t, p, "Readonly")

\* C28: re-offering a parked task.  schedule_task of a task t that an
\* earlier schedule_task parked returns Some when every page t requests is
\* free for it and no task blocked there is strictly heavier than t; t's own
\* entry, which is in the blocked map of each of those pages, does not block
\* it.
C28_ReofferParkedTask ==
    [][\A t \in TaskIds :
         (/\ Called("schedule_task") /\ last'.task = t
          /\ owner[t] = "Parked"
          /\ \A p \in Pages : RequestsPage(t, p) =>
                /\ FreeFor(t, p)
                /\ \A v \in BlockedOn(p) : weight(v) <= weight(t)) =>
                /\ RegisteredEverywhere(t)
                /\ last'.ret = "Some"
                /\ owner'[t] = "Granted"
                /\ \A p \in Pages : RequestsPage(t, p) =>
                        RecordsLock(pages'[p].usage, pages[p].usage, t, p)]_vars

\* C28 witness: the end of tests::test_schedule_conflicting_task.  After
\* one release and with the queue empty, a writer that had been parked was
\* offered again and granted; its entry is still in the page's blocked map.
C28_Witness ==
    /\ last.op = "schedule_task" /\ last.ret = "Some"
    /\ handled_task_count = 1 /\ total_task_count = 3 /\ reschedule_count = 0
    /\ retryable_task_queue = EmptyMap
    /\ \E X \in Pages :
            /\ RequestsOnly(last.task, X) /\ Requests(last.task, X, "Writable")
            /\ UsageOf(X) = Usage_Writable
            /\ last.task \in BlockedIn(X, "Writable")

\* The state of task t in the spec's lifecycle.
Phase(t) ==
    CASE owner[t] = "Unscheduled" -> "Unscheduled"
      [] owner[t] = "Granted" -> "Locked"
      [] owner[t] = "Descheduled" -> "Descheduled"
      [] owner[t] = "Parked" -> IF t \in Queued THEN "Retryable" ELSE "Blocked"

\* The moves of the lifecycle.
LifecycleMoves ==
    {<<"Unscheduled", "Locked">>, <<"Unscheduled", "Blocked">>,
     <<"Blocked", "Retryable">>, <<"Retryable", "Locked">>,
     <<"Retryable", "Blocked">>, <<"Locked", "Descheduled">>}

\* The move an owner adds that offers a parked task again: granted from
\* Blocked.  (Clearing the queue is a move from Retryable to Blocked.)
ReofferMoves == {<<"Blocked", "Locked">>}

\* A descheduled task is in no blocked map and not in the retryable queue.
Terminal(t) ==
    owner[t] = "Descheduled" =>
        /\ \A p \in Pages : t \notin BlockedOn(p)
        /\ t \notin Queued

\* C29: task lifecycle.  Every task moves only along the lifecycle, and,
\* Descheduled being terminal, a descheduled task stays descheduled and is
\* never again in a blocked map or in the retryable queue.  Stated for an
\* owner that may also clear the queue and offer a parked task again, whose
\* moves are let through.
C29_TaskLifecycle ==
    [][\A t \in TaskIds :
         /\ \/ Phase(t)' = Phase(t)
            \/ <<Phase(t), Phase(t)'>> \in LifecycleMoves \cup ReofferMoves
         /\ Terminal(t)']_vars

\* C29 for an owner that offers each task once and does not clear the
\* queue: every task moves only along the lifecycle, each move made by the
\* operation the lifecycle names for it, and Descheduled is terminal.
C29_TaskLifecycleOfferedOnce ==
    [][\A t \in TaskIds :
         /\ \/ Phase(t)' = Phase(t)
            \/ /\ <<Phase(t), Phase(t)'>> \in LifecycleMoves
               /\ Phase(t) = "Unscheduled" => Called("schedule_task") /\ last'.task = t
               /\ Phase(t)' = "Locked" =>
                    /\ last'.task = t /\ last'.ret = "Some"
                    /\ Phase(t) = "Retryable" => Called("schedule_retryable_task")
               /\ <<Phase(t), Phase(t)'>> = <<"Retryable", "Blocked">> =>
                    /\ Called("schedule_retryable_task")
                    /\ last'.task = t /\ last'.ret = "None"
               /\ <<Phase(t), Phase(t)'>> = <<"Blocked", "Retryable">> =>
                    /\ last'.task # t
                    /\ \/ Called("deschedule_task")
                       \/ Called("schedule_retryable_task") /\ last'.ret = "Some"
               /\ Phase(t)' = "Descheduled" => Called("deschedule_task") /\ last'.task = t
         /\ Terminal(t)'
         /\ owner[t] = "Descheduled" => ~(t \in Granted')]_vars

\* A task granted on a second offer was descheduled, then taken from the
\* retryable queue and granted once more: on_success has run twice for it.
C29_DescheduledTaskGrantedAgain ==
    /\ last.op = "schedule_retryable_task" /\ last.ret = "Some"
    /\ handled_task_count >= 1
    /\ on_success_count[last.task] = 2

\* ---------------------------------------------------------------- C30

\* C30: create_task(tx, index) gives the task the unique weight MAX - index,
\* task_index() of the task returns exactly the index it was created with,
\* and of two tasks the one with the smaller index has the strictly greater
\* unique weight.  (last.index is the index each task was created with.)
C30_PriorityRoundTrip ==
    /\ [](/\ \A t \in TaskIds :
                tasks[t].unique_weight = UniqueWeightMax - last.index[t]
          /\ \A t, u \in TaskIds :
                last.index[t] < last.index[u]
                    => tasks[t].unique_weight > tasks[u].unique_weight)
    /\ [][\A t \in TaskIds :
            /\ (Called("create_task") /\ last'.task = t)
                    => last'.value = UniqueWeightMax - last.index[t]
            /\ (Called("task_index") /\ last'.task = t)
                    => last'.value = last.index[t]]_vars

\* task_index has returned 3 for a task created with index 3 (as in
\* tests::test_create_task), another task having a larger index and the
\* smaller weight.
C30_Witness ==
    /\ last.op = "task_index"
    /\ last.index[last.task] = 3
    /\ last.value = 3
    /\ \E u \in TaskIds :
        /\ last.index[u] = UniqueWeightMax
        /\ tasks[u].unique_weight = 0
        /\ tasks[last.task].unique_weight = UniqueWeightMax - 3

\* ---------------------------------------------------------------- C31

\* C31: the usage grant table of attempt_lock_address.  On a Writable page
\* every request fails, and so does a Writable request on a Readonly page.
\* On an Unused page a granted Readonly request yields Readonly(1) and a
\* granted Writable request yields Writable; on Readonly(n) a granted
\* Readonly request yields Readonly(n + 1).  The priority guard alone can
\* turn these grants into failures: with no task blocked on the page the
\* request is granted.
C31_UsageGrantTable ==
    [][\A t \in TaskIds :
        (Called("attempt_lock_address") /\ last'.task = t) =>
            LET attempt == tasks[t].lock_attempts[1]
                usage == pages[attempt.page].usage
                requested_usage == attempt.requested_usage
                unguarded == BlockedOn(attempt.page) = {}
                ret == last'.ret
                granted == last'.usage
            IN  /\ usage = Usage_Writable => ret = "Failed"
                /\ (usage.tag = "Readonly" /\ requested_usage = "Writable")
                        => ret = "Failed"
                /\ (usage = Usage_Unused /\ requested_usage = "Readonly") =>
                        /\ ret \in {"Succeded", "Failed"}
                        /\ ret = "Succeded" => granted = Usage_Readonly(1)
                        /\ unguarded => ret = "Succeded"
                /\ (usage = Usage_Unused /\ requested_usage = "Writable") =>
                        /\ ret \in {"Succeded", "Failed"}
                        /\ ret = "Succeded" => granted = Usage_Writable
                        /\ unguarded => ret = "Succeded"
                /\ (usage.tag = "Readonly" /\ requested_usage = "Readonly") =>
                        /\ ret \in {"Succeded", "Failed"}
                        /\ ret = "Succeded"
                                => granted = Usage_Readonly(usage.count + 1)
                        /\ unguarded => ret = "Succeded"]_vars

\* A Readonly request on a page that is Readonly(2) has been granted
\* Readonly(3), a task being blocked on the page.
C31_Witness ==
    /\ last.op = "attempt_lock_address"
    /\ last.ret = "Succeded"
    /\ last.usage = Usage_Readonly(3)
    /\ \E t \in TaskIds :
        /\ last.task = t
        /\ pages[tasks[t].lock_attempts[1].page].usage = Usage_Readonly(2)
        /\ tasks[t].lock_attempts[1].requested_usage = "Readonly"
        /\ BlockedOn(tasks[t].lock_attempts[1].page) # {}

\* ---------------------------------------------------------------- C32

\* C32: unlock of a Readonly request on Readonly(n), n > 1, leaves
\* Readonly(n - 1) and returns false; on Readonly(1) it leaves Unused and
\* returns true; unlock of a Writable request on a Writable page leaves
\* Unused and returns true.  Whatever the usage and the request, unlock
\* leaves both blocked maps of the page as they were.
C32_UnlockTransitions ==
    [][\A t \in TaskIds :
        (Called("unlock") /\ last'.task = t) =>
            LET attempt == tasks[t].lock_attempts[1]
                page == pages[attempt.page]
                requested_usage == attempt.requested_usage
            IN  /\ (page.usage.tag = "Readonly" /\ page.usage.count > 1
                        /\ requested_usage = "Readonly") =>
                        /\ last'.ret = "False"
                        /\ last'.usage = Usage_Readonly(page.usage.count - 1)
                /\ (page.usage = Usage_Readonly(1)
                        /\ requested_usage = "Readonly") =>
                        /\ last'.ret = "True"
                        /\ last'.usage = Usage_Unused
                /\ (page.usage = Usage_Writable
                        /\ requested_usage = "Writable") =>
                        /\ last'.ret = "True"
                        /\ last'.usage = Usage_Unused
                /\ last'.page.writable_blocked_tasks = page.writable_blocked_tasks
                /\ last'.page.readonly_blocked_tasks = page.readonly_blocked_tasks]_vars

\* unlock of a Readonly request has taken a page from Readonly(2) to
\* Readonly(1) and returned false, tasks being blocked on the page in both
\* maps.
C32_Witness ==
    /\ last.op = "unlock"
    /\ last.ret = "False"
    /\ last.usage = Usage_Readonly(1)
    /\ \E t \in TaskIds :
        /\ last.task = t
        /\ pages[tasks[t].lock_attempts[1].page].usage = Usage_Readonly(2)
        /\ BlockedIn(tasks[t].lock_attempts[1].page, "Writable") # {}
        /\ BlockedIn(tasks[t].lock_attempts[1].page, "Readonly") # {}
        /\ last.page.writable_blocked_tasks # EmptyMap

\* ---------------------------------------------------------------- C33

\* Page p is recorded in the usage task t requests of it.
Matches(t, p) ==
    \/ Requests(t, p, "Readonly") /\ UsageOf(p).tag = "Readonly"
    \/ Requests(t, p, "Writable") /\ UsageOf(p).tag = "Writable"

\* Some page task t requests is not recorded in the usage t requests of it.
Mismatched(t) == \E p \in Pages : RequestsPage(t, p) /\ ~Matches(t, p)

\* C33, as stated: deschedule_task of a task that holds no locks (never
\* granted, or already descheduled) aborts.
C33_DescheduleWithoutLocksAborts ==
    [][\A t \in TaskIds :
        (Called("deschedule_task") /\ last'.task = t /\ owner[t] # "Granted")
            => last'.ret = "Panic"]_vars

\* C33: unlock of a request on an Unused page, of a Readonly request on a
\* Writable page or of a Writable request on a Readonly page is fatal
\* (unreachable code) and leaves the page's usage as it was; deschedule_task
\* aborts exactly when active_task_count is 0 or such a mismatch is met on a
\* page the task requests.
C33_MismatchedUnlockIsFatal ==
    [][\A t \in TaskIds :
        (Called("deschedule_task") /\ last'.task = t) =>
            /\ last'.ret = "Panic" <=> (active_task_count = 0 \/ Mismatched(t))
            /\ (active_task_count > 0 /\ Mismatched(t)) =>
                    /\ panic' = "unreachable"
                    /\ \A p \in Pages :
                        (RequestsPage(t, p) /\ ~Matches(t, p))
                            => pages'[p].usage = pages[p].usage]_vars

\* deschedule_task of a task that holds no locks has aborted in unlock: a
\* task is granted, so active_task_count was not 0, and the page the
\* descheduled task requests is not recorded in the usage it requests.
C33_Witness ==
    /\ last.op = "deschedule_task"
    /\ last.ret = "Panic"
    /\ panic = "unreachable"
    /\ last.task \in TaskIds
    /\ owner[last.task] # "Granted"
    /\ Granted # {}

\* deschedule_task of a task that was never granted has returned: the page
\* it requests was held by another task, which is still granted, and is now
\* Unused.
C33_LockOfAnotherTaskReleased ==
    /\ last.op = "deschedule_task"
    /\ last.ret = "Unit"
    /\ last.task \in TaskIds
    /\ owner[last.task] = "Unscheduled"
    /\ \E p \in Pages : \E u \in Granted :
        /\ RequestsPage(last.task, p)
        /\ RequestsPage(u, p)
        /\ UsageOf(p) = Usage_Unused

\* unlock alone: the mismatched combinations are fatal and leave the page as
\* it was.
C33_UnlockMismatchUnit ==
    [][\A t \in TaskIds :
        (Called("unlock") /\ last'.task = t) =>
            LET attempt == tasks[t].lock_attempts[1]
                page == pages[attempt.page]
                requested_usage == attempt.requested_usage
            IN  (\/ page.usage = Usage_Unused
                 \/ page.usage = Usage_Writable /\ requested_usage = "Readonly"
                 \/ page.usage.tag = "Readonly" /\ requested_usage = "Writable")
                    => /\ last'.ret = "Panic"
                       /\ last'.page = page]_vars

\* ---------------------------------------------------------------- C34

\* A page task t requests has, in the blocked map of the usage t requests,
\* an entry with the unique weight of t.
WeightRegistered(t) ==
    \E p \in Pages : \E requested_usage \in {"Readonly", "Writable"} :
        /\ Requests(t, p, requested_usage)
        /\ weight(t) \in DOMAIN pages[p][blocked_tasks_field(requested_usage)]

\* C34: registering a blocked task on a page whose map for the requested
\* usage already has an entry of the task's unique weight fails the
\* assertion of insert_blocked_task.  So schedule_task aborts exactly when
\* the task cannot be locked and such an entry exists: the entry of another
\* task created with the same index, or the task's own entry when a parked
\* task is offered again and fails again.  The machine does not go on with
\* the entry overwritten.
C34_DuplicatePriorityIsFatal ==
    [][\A t \in TaskIds :
        (Called("schedule_task") /\ last'.task = t) =>
            /\ last'.ret = "Panic" <=> (~Lockable(t) /\ WeightRegistered(t))
            /\ last'.ret = "Panic" => panic' = "assert pre_existed.is_none()"
            /\ (~Lockable(t) /\ ~WeightRegistered(t)) => last'.ret = "None"]_vars

\* schedule_task of a task, offered for the first time, has aborted: another
\* task created with the same index is parked on the page both request with
\* the same usage.
C34_Witness ==
    /\ last.op = "schedule_task"
    /\ last.ret = "Panic"
    /\ panic = "assert pre_existed.is_none()"
    /\ \E t, u \in TaskIds : \E p \in Pages :
        \E requested_usage \in {"Readonly", "Writable"} :
            /\ last.task = t
            /\ owner[t] = "Unscheduled"
            /\ u # t
            /\ weight(u) = weight(t)
            /\ owner[u] = "Parked"
            /\ Requests(t, p, requested_usage)
            /\ Requests(u, p, requested_usage)

\* schedule_task of a parked task, offered again, has aborted, no two tasks
\* having the same unique weight.
C34_ReofferedTaskAborts ==
    /\ last.op = "schedule_task"
    /\ last.ret = "Panic"
    /\ panic = "assert pre_existed.is_none()"
    /\ last.task \in TaskIds
    /\ owner[last.task] = "Parked"
    /\ \A t, u \in TaskIds : t # u => weight(t) # weight(u)

\* ---------------------------------------------------------------- C35

\* C35: a counter is changed by checked +1 and -1 alone and never wraps.
\* increment_self at the counter's maximum is a hard failure, the counter
\* not becoming 0, and below the maximum it adds 1; decrement_self at 0 is a
\* hard failure, the counter not becoming the maximum, and above 0 it takes
\* 1 away.  deschedule_task when active_task_count is 0 is that hard
\* failure: the count does not wrap and no page is unlocked.
C35_CountersNeverWrap ==
    [][/\ Called("increment_self") =>
            IF active_task_count = CounterMax
            THEN last'.ret = "Panic" /\ last'.value = CounterMax
            ELSE last'.ret = "Unit" /\ last'.value = active_task_count + 1
       /\ Called("decrement_self") =>
            IF active_task_count = 0
            THEN last'.ret = "Panic" /\ last'.value = 0
            ELSE last'.ret = "Unit" /\ last'.value = active_task_count - 1
       /\ \A t \in TaskIds :
            (Called("deschedule_task") /\ last'.task = t) =>
                /\ active_task_count = 0 =>
                    /\ last'.ret = "Panic"
                    /\ last'.value = 0
                    /\ last'.page = pages[tasks[t].lock_attempts[1].page]
                /\ last'.ret = "Unit" => last'.value = active_task_count - 1]_vars

\* deschedule_task has aborted with active_task_count 0, the page the task
\* requests being recorded in the very usage the task requests.
C35_Witness ==
    /\ last.op = "deschedule_task"
    /\ last.ret = "Panic"
    /\ last.value = 0
    /\ active_task_count = 0
    /\ last.task \in TaskIds
    /\ Matches(last.task, tasks[last.task].lock_attempts[1].page)

\* increment_self has aborted at the counter's maximum.
C35_IncrementAtMaximumAborts ==
    /\ last.op = "increment_self"
    /\ last.ret = "Panic"
    /\ active_task_count = CounterMax
    /\ last.value = CounterMax

\* ---------------------------------------------------------------- C36

\* C36: when schedule_retryable_task returns Some for a task, afterwards
\* every page the task requested records the staged usage (Writable, or a
\* reader count one higher than before the call), and the task is in
\* neither blocked map of any page it requested nor in the retryable queue.
C36_RetrySuccessCommitsAndUnparks ==
    [][\A t \in TaskIds :
        (Called("schedule_retryable_task") /\ last'.ret = "Some" /\ last'.task = t) =>
            /\ \A p \in Pages :
                RequestsPage(t, p) =>
                    /\ RecordsLock(pages'[p].usage, pages[p].usage, t, p)
                    /\ t \notin BlockedOn(p)'
            /\ t \notin Queued']_vars

\* schedule_retryable_task has returned Some for a task that reads one page
\* next to another reader (the count is 2) and writes the other page.
C36_Witness ==
    /\ last.op = "schedule_retryable_task"
    /\ last.ret = "Some"
    /\ \E t \in TaskIds : \E p, q \in Pages :
        /\ last.task = t
        /\ p # q
        /\ Requests(t, p, "Readonly")
        /\ UsageOf(p) = Usage_Readonly(2)
        /\ Requests(t, q, "Writable")
        /\ UsageOf(q) = Usage_Writable
        /\ t \notin Queued
        /\ t \notin BlockedOn(p) \cup BlockedOn(q)

\* ---------------------------------------------------------------- C37

\* Tasks t and u request a common page, one of them at least Writable.
Conflicting(t, u) == \E p \in Pages : ConflictOn(t, u, p)

\* C37: the tasks being offered to schedule_task in increasing index order,
\* of two conflicting tasks the one of the larger index is granted only
\* after the other has been descheduled, and its on_success is invoked only
\* after the other's, whatever the interleaving of deschedule_task and
\* schedule_retryable_task with the offers.  (Task t is created with index
\* t - 1.)
C37_IndexOrderSerialization ==
    \A t, u \in TaskIds :
        (t < u /\ Conflicting(t, u)) =>
            /\ owner[u] \in {"Granted", "Descheduled"} => owner[t] = "Descheduled"
            /\ on_success_count[u] > 0 => on_success_count[t] > 0

\* A retry has granted task 3, which conflicts with task 2; task 2 was
\* granted by a retry as well and is descheduled, and task 1, which held
\* task 2 back, is descheduled too.
C37_Witness ==
    /\ last.op = "schedule_retryable_task"
    /\ last.ret = "Some"
    /\ last.task = 3
    /\ owner = <<"Descheduled", "Descheduled", "Granted">>
    /\ Conflicting(2, 3)
    /\ Conflicting(1, 2)
    /\ ~Conflicting(1, 3)
    /\ rescheduled_task_count = 2

\* schedule_task has parked a task every page of which is Unused: a task of
\* a smaller index that conflicts with it is parked on a page they share.
C37_ParkedBehindParkedTask ==
    /\ last.op = "schedule_task"
    /\ last.ret = "None"
    /\ \E t, u \in TaskIds :
        /\ last.task = u
        /\ t < u
        /\ Conflicting(t, u)
        /\ owner[t] = "Parked"
        /\ \A p \in Pages : RequestsPage(u, p) => UsageOf(p) = Usage_Unused

\* ---------------------------------------------------------------- C39

\* C39: clear_retryable_tasks never being called, whenever every page is
\* Unused and the retryable queue is empty, no task is registered as blocked
\* on any page: a parked task is never left with nothing to wake it.
C39_NoLostWakeupAtQuiescence ==
    ((\A p \in Pages : UsageOf(p) = Usage_Unused) /\ Queued = {})
        => \A p \in Pages : BlockedOn(p) = {}

\* deschedule_task has left every page Unused with the queue empty, after
\* two tasks that had been parked were granted by retries and a retry had
\* failed.
C39_Witness ==
    /\ last.op = "deschedule_task"
    /\ \A p \in Pages : UsageOf(p) = Usage_Unused
    /\ Queued = {}
    /\ rescheduled_task_count = 2
    /\ reschedule_count > 2
    /\ \A t \in TaskIds : owner[t] = "Descheduled"

\* ---------------------------------------------------------------- C38

\* C38: the owner offering each task once, reporting every granted task,
\* asking for retryable tasks while there are some and never clearing the
\* queue, every task is eventually granted (its on_success invoked) and
\* is_empty() becomes true: from some point on every task has had its
\* on_success and is descheduled, so that none is parked, and is_empty()
\* is true.
C38_Completion ==
    <>[](/\ \A t \in TaskIds : on_success_count[t] > 0 /\ owner[t] = "Descheduled"
         /\ is_empty(Machine))

\* Every task is descheduled and is_empty() is true, two of the tasks
\* having been parked and granted by retries, after a retry that failed.
C38_Witness ==
    /\ \A t \in TaskIds : owner[t] = "Descheduled" /\ on_success_count[t] = 1
    /\ is_empty(Machine)
    /\ ~has_retryable_task(Machine)
    /\ rescheduled_task_count = 2
    /\ reschedule_count > 2

====
